---- MODULE Spec2Model ----
(***************************************************************************)
(* Model of the technical-plans lifecycle manager of obsidian-mcp          *)
(* (TechnicalPlansManager) over the vault gateway (ObsidianApiClient).     *)
(*                                                                         *)
(* Text is modelled at character level: a string is a sequence of          *)
(* one-character strings, so that the frontmatter regex, split, indexOf,   *)
(* trim and the filename sanitisation are computed as the code computes    *)
(* them.  Every asynchronous manager method is a small state machine whose *)
(* steps are its awaited gateway calls.                                    *)
(***************************************************************************)
EXTENDS Integers, Sequences, FiniteSets, TLC

VARIABLES vault, now, ops, calls, created, faults, codec, cli

vars == <<vault, now, ops, calls, created, faults, codec, cli>>

(***************************************************************************)
(* Bounds of the model.                                                    *)
(***************************************************************************)
MaxDay == 3
MaxCreates == 2
MaxCalls == 4
MaxFailures == 1
MaxDaysOld == 2
MaxLines == 5

\* granularity of the clock: instants per calendar day
TicksPerDay == 2
NumProcs == 2
Procs == 1..NumProcs

(***************************************************************************)
(* String constants of the program.                                        *)
(***************************************************************************)
NL == "\n"
basePath == <<"T", "e", "c", "h", "n", "i", "c", "a", "l", " ", "P", "l", "a", "n", "s">>
FolderInbox == <<"T", "e", "c", "h", "n", "i", "c", "a", "l", " ", "P", "l", "a", "n", "s", "/", "I", "n", "b", "o", "x">>
FolderReviewed == <<"T", "e", "c", "h", "n", "i", "c", "a", "l", " ", "P", "l", "a", "n", "s", "/", "R", "e", "v", "i", "e", "w", "e", "d">>
FolderArchive == <<"T", "e", "c", "h", "n", "i", "c", "a", "l", " ", "P", "l", "a", "n", "s", "/", "A", "r", "c", "h", "i", "v", "e">>
\* Object.entries(this.folders): inbox, reviewed, archive, in that order
folders == <<FolderInbox, FolderReviewed, FolderArchive>>
KeyCreated == <<"c", "r", "e", "a", "t", "e", "d">>
KeySource == <<"s", "o", "u", "r", "c", "e">>
KeyType == <<"t", "y", "p", "e">>
KeyProject == <<"p", "r", "o", "j", "e", "c", "t">>
KeyPriority == <<"p", "r", "i", "o", "r", "i", "t", "y">>
KeyReviewDate == <<"r", "e", "v", "i", "e", "w", "_", "d", "a", "t", "e">>
DefaultSource == <<"O", "t", "h", "e", "r", " ", "L", "L", "M">>
DefaultType == <<"D", "e", "s", "i", "g", "n">>
DefaultProject == <<"U", "n", "n", "a", "m", "e", "d", " ", "P", "r", "o", "j", "e", "c", "t">>
DefaultPriority == <<"M", "e", "d", "i", "u", "m">>
ExtMd == <<".", "m", "d">>
AlnumChars == {"a", "b", "c", "d", "e", "f", "g", "h", "i", "j", "k", "l", "m", "n", "o", "p", "q", "r", "s", "t", "u", "v", "w", "x", "y", "z", "A", "B", "C", "D", "E", "F", "G", "H", "I", "J", "K", "L", "M", "N", "O", "P", "Q", "R", "S", "T", "U", "V", "W", "X", "Y", "Z", "0", "1", "2", "3", "4", "5", "6", "7", "8", "9"}
Whitespace == {" ", "\n", "\t", "\r"}

(***************************************************************************)
(* String primitives of the JavaScript runtime.                            *)
(***************************************************************************)
SetMin(S) == CHOOSE x \in S : \A y \in S : x <= y

StartsWith(s, pre) == Len(s) >= Len(pre) /\ SubSeq(s, 1, Len(pre)) = pre

EndsWith(s, suf) == Len(s) >= Len(suf) /\ SubSeq(s, Len(s) - Len(suf) + 1, Len(s)) = suf

\* 1-based position of the first occurrence of character c, 0 when absent
\* (JavaScript's indexOf plus one)
IndexOf(s, c) ==
  LET hits == {i \in 1..Len(s) : s[i] = c}
  IN  IF hits = {} THEN 0 ELSE SetMin(hits)

Trim(s) ==
  LET keep == {i \in 1..Len(s) : s[i] \notin Whitespace}
  IN  IF keep = {} THEN <<>>
      ELSE SubSeq(s, SetMin(keep), CHOOSE x \in keep : \A y \in keep : y <= x)

RECURSIVE Split(_, _)
Split(s, c) ==
  LET i == IndexOf(s, c)
  IN  IF i = 0 THEN <<s>>
      ELSE <<SubSeq(s, 1, i - 1)>> \o Split(SubSeq(s, i + 1, Len(s)), c)

RECURSIVE Join(_, _)
Join(parts, sep) ==
  IF parts = <<>> THEN <<>>
  ELSE IF Len(parts) = 1 THEN parts[1]
  ELSE parts[1] \o sep \o Join(Tail(parts), sep)

\* the last element of path.split("/")
LastSegment(path) ==
  LET parts == Split(path, "/") IN parts[Len(parts)]

\* variant: without the g flag only the first match is replaced
SanitizeFirst(s) ==
  LET bad == {i \in 1..Len(s) : s[i] \notin AlnumChars}
  IN  [i \in 1..Len(s) |-> IF bad # {} /\ i = SetMin(bad) THEN "_" ELSE s[i]]

\* s.replace(/[^a-zA-Z0-9]/g, "_")
Sanitize(s) == [i \in 1..Len(s) |-> IF s[i] \in AlnumChars THEN s[i] ELSE "_"]

(***************************************************************************)
(* Metadata objects: a JavaScript object is an insertion-ordered list of   *)
(* entries; an entry whose d is FALSE holds the value undefined.           *)
(***************************************************************************)
Entry(k, v) == [k |-> k, d |-> TRUE, v |-> v]
UndefEntry(k) == [k |-> k, d |-> FALSE, v |-> <<>>]

HasKey(m, k) == \E i \in 1..Len(m) : m[i].k = k

\* m[k], the undefined entry when the key is absent
Get(m, k) ==
  IF HasKey(m, k) THEN m[CHOOSE i \in 1..Len(m) : m[i].k = k] ELSE UndefEntry(k)

\* m[e.k] = e : an existing key keeps its position
Assign(m, e) ==
  IF HasKey(m, e.k) THEN [i \in 1..Len(m) |-> IF m[i].k = e.k THEN e ELSE m[i]]
  ELSE Append(m, e)

\* { ...a, ...b }
RECURSIVE Spread(_, _)
Spread(a, b) == IF b = <<>> THEN a ELSE Spread(Assign(a, Head(b)), Tail(b))

\* x || dflt on a string-or-undefined value
OrDefault(e, dflt) == IF e.d /\ e.v # <<>> THEN e.v ELSE dflt

(***************************************************************************)
(* The frontmatter codec.                                                  *)
(***************************************************************************)
DelimOpen == <<"-", "-", "-", "\n">>
DelimClose == <<"\n", "-", "-", "-", "\n">>

\* content.match(/^---\n([\s\S]*?)\n---\n([\s\S]*)$/)
frontmatterRegex(content) ==
  LET n == Len(content)
      cands == {i \in 5..(n - 4) : SubSeq(content, i, i + 4) = DelimClose}
  IN  IF StartsWith(content, DelimOpen) /\ cands # {}
      THEN LET i == SetMin(cands)
           IN  [ok |-> TRUE, fm |-> SubSeq(content, 5, i - 1),
                body |-> SubSeq(content, i + 5, n)]
      ELSE [ok |-> FALSE, fm |-> <<>>, body |-> content]

RECURSIVE ParseLines(_, _)
ParseLines(lines, metadata) ==
  IF lines = <<>> THEN metadata
  ELSE LET line == Head(lines)
           colon == IndexOf(line, ":")
       IN  IF colon > 1
           THEN ParseLines(Tail(lines),
                  Assign(metadata, Entry(Trim(SubSeq(line, 1, colon - 1)),
                                         Trim(SubSeq(line, colon + 1, Len(line))))))
           ELSE ParseLines(Tail(lines), metadata)

parseFrontmatter(content) ==
  LET match == frontmatterRegex(content)
  IN  IF ~match.ok THEN [metadata |-> <<>>, content |-> content]
      ELSE [metadata |-> ParseLines(Split(match.fm, "\n"), <<>>),
            content |-> match.body]

RECURSIVE MetaLines(_)
MetaLines(metadata) ==
  IF metadata = <<>> THEN <<>>
  ELSE LET e == Head(metadata)
       IN  (IF e.d THEN <<e.k \o <<":", " ">> \o e.v>> ELSE <<>>)
             \o MetaLines(Tail(metadata))

generateFrontmatter(metadata) ==
  Join(<<<<"-", "-", "-">>>> \o MetaLines(metadata) \o <<<<"-", "-", "-">>, <<>>>>, <<"\n">>)

(***************************************************************************)
(* Clock and dates.  now counts instants since 2025-01-01T00:00Z; the      *)
(* model covers the first days of January 2025, whose ISO dates differ in  *)
(* the last digit only.                                                    *)
(***************************************************************************)
DatePrefix == <<"2", "0", "2", "5", "-", "0", "1", "-", "0">>
Digits == <<"0", "1", "2", "3", "4", "5", "6", "7", "8", "9">>

\* the calendar day (1 = 2025-01-01) of instant t
DayOf(t) == (t \div TicksPerDay) + 1

\* new Date().toISOString().split("T")[0] for a date on day d
FormatDate(d) == DatePrefix \o <<Digits[d + 1]>>

\* new Date(s): the instant of midnight of an ISO date, or an invalid date
ParseDate(s) ==
  IF Len(s) = 10 /\ SubSeq(s, 1, 9) = DatePrefix
       /\ \E d \in 1..9 : s[10] = Digits[d + 1]
  THEN [valid |-> TRUE,
        t |-> ((CHOOSE d \in 1..9 : s[10] = Digits[d + 1]) - 1) * TicksPerDay]
  ELSE [valid |-> FALSE, t |-> 0]

(***************************************************************************)
(* The command line (cli.ts).  A value that may be undefined is a record   *)
(* whose d is FALSE when it is; the tokens of the command line and the     *)
(* values of the environment are strings.                                  *)
(***************************************************************************)
DEFAULT_API_URL == "http://localhost:27123"

NoValue == [d |-> FALSE, v |-> ""]
StringValue(v) == [d |-> TRUE, v |-> v]

\* a || b: undefined and the empty string are falsy
OrElse(a, b) == IF a.d /\ a.v # "" THEN a ELSE b

HelpOptions == {"--help", "-h"}
UrlOptions == {"--api-url", "-u"}
KeyOptions == {"--api-key", "-k"}

\* parseArgs from token i on: a string option takes the next token as its
\* value unless that token is missing, empty or an option, and is then the
\* empty string; a later occurrence replaces an earlier one; any other
\* token is positional
RECURSIVE ParseArgsFrom(_, _, _)
ParseArgsFrom(args, i, parsed) ==
  IF i > Len(args) THEN parsed
  ELSE IF args[i] \in HelpOptions THEN ParseArgsFrom(args, i + 1, [parsed EXCEPT !.help = TRUE])
  ELSE IF args[i] \in UrlOptions \cup KeyOptions
  THEN LET takes == /\ i < Len(args)
                    /\ args[i + 1] # ""
                    /\ args[i + 1] \notin HelpOptions \cup UrlOptions \cup KeyOptions
           value == StringValue(IF takes THEN args[i + 1] ELSE "")
       IN  ParseArgsFrom(args, IF takes THEN i + 2 ELSE i + 1,
                         IF args[i] \in UrlOptions THEN [parsed EXCEPT !.url = value]
                         ELSE [parsed EXCEPT !.key = value])
  ELSE ParseArgsFrom(args, i + 1, parsed)

\* parseArgs(args, {string: ["api-url", "api-key"], boolean: ["help"],
\*                  alias: {h: "help", u: "api-url", k: "api-key"}, default: {help: false}})
parseArgs(args) == ParseArgsFrom(args, 1, [help |-> FALSE, url |-> NoValue, key |-> NoValue])

\* variant: the environment is looked at before the command line
parseCliArgsEnvFirst(args, env) ==
  LET parsed == parseArgs(args)
  IN  IF parsed.help
      THEN [obsidianApiUrl |-> StringValue(DEFAULT_API_URL), apiKey |-> NoValue, showHelp |-> TRUE]
      ELSE [obsidianApiUrl |-> OrElse(OrElse(env.url, parsed.url), StringValue(DEFAULT_API_URL)),
            apiKey |-> OrElse(env.key, parsed.key), showHelp |-> FALSE]

\* env: Deno.env.get of OBSIDIAN_API_URL and of OBSIDIAN_API_KEY
parseCliArgs(args, env) ==
  LET parsed == parseArgs(args)
  IN  IF parsed.help
      THEN [obsidianApiUrl |-> StringValue(DEFAULT_API_URL), apiKey |-> NoValue, showHelp |-> TRUE]
      ELSE [obsidianApiUrl |-> OrElse(OrElse(parsed.url, env.url), StringValue(DEFAULT_API_URL)),
            apiKey |-> OrElse(parsed.key, env.key), showHelp |-> FALSE]

\* no command line parsed yet
CliIdle ==
  [given |-> [url |-> NoValue, key |-> NoValue, help |-> FALSE, short |-> FALSE],
   args |-> <<>>, env |-> [url |-> NoValue, key |-> NoValue], done |-> FALSE,
   config |-> [obsidianApiUrl |-> NoValue, apiKey |-> NoValue, showHelp |-> FALSE]]

(***************************************************************************)
(* The vault gateway (ObsidianApiClient): a map from path to content.      *)
(* Each call either fails and changes nothing, or takes effect.            *)
(***************************************************************************)
EmptyVault == [p \in {} |-> <<>>]

Exists(v, path) == path \in DOMAIN v

getFile(v, path, fail) ==
  IF fail \/ ~Exists(v, path) THEN [ok |-> FALSE, content |-> <<>>]
  ELSE [ok |-> TRUE, content |-> v[path]]

createOrUpdateFile(v, path, content, fail) ==
  IF fail THEN [ok |-> FALSE, vault |-> v]
  ELSE [ok |-> TRUE, vault |-> [q \in DOMAIN v \cup {path} |->
                                  IF q = path THEN content ELSE v[q]]]

deleteFile(v, path, fail) ==
  IF fail \/ ~Exists(v, path) THEN [ok |-> FALSE, vault |-> v]
  ELSE [ok |-> TRUE, vault |-> [q \in DOMAIN v \ {path} |-> v[q]]]

\* the names of the entries directly inside a folder
DirEntries(v, folder) ==
  {SubSeq(q, Len(folder) + 2, Len(q)) :
     q \in {r \in DOMAIN v : StartsWith(r, folder \o <<"/">>)
                              /\ IndexOf(SubSeq(r, Len(folder) + 2, Len(r)), "/") = 0}}

PathOf(folder, filename) == folder \o <<"/">> \o filename

LogEntry(call, path, ok) == [call |-> call, path |-> path, ok |-> ok]

(***************************************************************************)
(* A call of a manager method: its arguments, its position (pc), its       *)
(* locals, the gateway calls it has issued (log) and its outcome.          *)
(***************************************************************************)
IdleOp ==
  [name |-> "idle", pc |-> "idle", filename |-> <<>>, target |-> 1,
   daysOld |-> 0, arg |-> <<>>, body |-> <<>>, idx |-> 1, sourcePath |-> <<>>,
   content |-> <<>>, out |-> <<>>, dirs |-> <<>>, todo |-> <<>>,
   plans |-> <<>>, next |-> 1, count |-> 0, log |-> <<>>, fails |-> 0,
   result |-> "none", err |-> "", ret |-> <<>>, isNull |-> FALSE,
   allFiles |-> {}, cause |-> "",
   thrown |-> [isError |-> TRUE, message |-> ""],
   response |-> [content |-> <<>>, hasIsError |-> FALSE, isError |-> FALSE],
   pre |-> EmptyVault, at |-> 0]

Done(p) == ops[p].pc = "done"
Idle(p) == ops[p].pc \in {"idle", "done"}
AllIdle == \A p \in Procs : Idle(p)

\* the outcomes of a gateway call: besides failing on a missing path, a call
\* can fail for another reason (network, server) while the specification
\* allows it and the run has such faults left
FailChoices(p, mayFail) ==
  IF mayFail /\ faults < MaxFailures THEN BOOLEAN ELSE {FALSE}

\* the account of injected faults
Fault(fail) == faults' = IF fail THEN faults + 1 ELSE faults

\* one more call of a manager method
Called == calls < MaxCalls /\ calls' = calls + 1

NewOp(name) == [IdleOp EXCEPT !.name = name, !.pre = vault, !.at = now]

Init ==
  /\ vault = EmptyVault
  /\ now = 0
  /\ ops = [p \in Procs |-> IdleOp]
  /\ calls = 0
  /\ created = 0
  /\ faults = 0
  /\ codec = [meta |-> <<>>, body |-> <<>>, done |-> FALSE,
              out |-> [metadata |-> <<>>, content |-> <<>>]]
  /\ cli = CliIdle

\* time passes between calls
Tick ==
  /\ AllIdle
  /\ DayOf(now + 1) <= MaxDay
  /\ now' = now + 1
  /\ UNCHANGED <<vault, ops, calls, created, faults, codec, cli>>

\* the messages of the errors the manager throws
GatewayError == "gateway error"
NotFoundError == "File not found in Technical Plans"
MarkReviewedError == "Failed to mark plan as reviewed"
MovePlanError == "Failed to move plan"

\* the error of the gateway for a path that does not exist
GatewayNotFound == "Not Found"

\* cause: the error the last failed gateway call threw
Logged(op, call, path, ok, fail) ==
  [op EXCEPT !.log = Append(@, LogEntry(call, path, ok)),
             !.fails = IF fail THEN @ + 1 ELSE @,
             !.cause = IF ok THEN @ ELSE IF fail THEN GatewayError ELSE GatewayNotFound]

\* what the caller of a failed call catches: the message and, where the
\* method builds its message as `...: ${error}`, the error it wraps
Thrown(op) ==
  IF op.name \in {"markReviewed", "movePlan", "initializeStructure"}
  THEN <<op.err, op.cause>>
  ELSE <<op.err, "">>

\* the call ends by throwing an Error with this message (prefix)
Throw(op, message) == [op EXCEPT !.pc = "done", !.result = "error", !.err = message]

(***************************************************************************)
(* createTechnicalPlan                                                     *)
(***************************************************************************)
generateFilename(date, projectName, type) ==
  date \o <<"_">> \o Sanitize(projectName) \o <<"_">> \o Sanitize(type) \o ExtMd

fullMetadata(date, metadata) ==
  Spread(<<Entry(KeyCreated, date),
           Entry(KeySource, OrDefault(Get(metadata, KeySource), DefaultSource)),
           Entry(KeyType, OrDefault(Get(metadata, KeyType), DefaultType)),
           Entry(KeyProject, OrDefault(Get(metadata, KeyProject), DefaultProject)),
           Entry(KeyPriority, OrDefault(Get(metadata, KeyPriority), DefaultPriority))>>,
         metadata)

\* the call: everything up to the awaited write.  Calling replace on an
\* undefined project or type throws before any gateway call is made.
createTechnicalPlan(p, content, metadata) ==
  /\ Idle(p)
  /\ Called
  /\ created < MaxCreates
  /\ created' = created + 1
  /\ LET date == FormatDate(DayOf(now))
         full == fullMetadata(date, metadata)
         op == [NewOp("createTechnicalPlan") EXCEPT !.arg = metadata, !.body = content]
     IN  IF Get(full, KeyProject).d /\ Get(full, KeyType).d
         THEN ops' = [ops EXCEPT ![p] =
                [op EXCEPT !.pc = "put",
                           !.filename = generateFilename(date, Get(full, KeyProject).v,
                                                         Get(full, KeyType).v),
                           !.out = generateFrontmatter(full) \o content]]
         ELSE ops' = [ops EXCEPT ![p] =
                [op EXCEPT !.pc = "done", !.result = "error", !.err = "TypeError"]]
  /\ UNCHANGED <<vault, now, faults, codec, cli>>

CreatePut(p, mayFail) ==
  /\ ops[p].name \in {"createTechnicalPlan", "putFileEnhanced"} /\ ops[p].pc = "put"
  /\ \E fail \in FailChoices(p, mayFail) :
       /\ Fault(fail)
       /\ LET filepath == PathOf(FolderInbox, ops[p].filename)
              r == createOrUpdateFile(vault, filepath, ops[p].out, fail)
              op == Logged(ops[p], "createOrUpdateFile", filepath, r.ok, fail)
          IN  /\ vault' = r.vault
              /\ ops' = [ops EXCEPT ![p] =
                     IF r.ok
                     THEN [op EXCEPT !.pc = "done", !.result = "ok",
                                     !.ret = IF op.name = "createTechnicalPlan" THEN filepath ELSE @]
                     ELSE Throw(op, GatewayError)]
  /\ UNCHANGED <<now, calls, created, codec, cli>>

(***************************************************************************)
(* markReviewed                                                            *)
(***************************************************************************)
\* variant: the metadata is written back as it was read
reviewedContentUndated(content, date) ==
  LET parsed == parseFrontmatter(content)
  IN  generateFrontmatter(parsed.metadata) \o parsed.content

\* variant: the frontmatter is built anew from the review date alone
reviewedContentBare(content, date) ==
  LET parsed == parseFrontmatter(content)
  IN  generateFrontmatter(<<Entry(KeyReviewDate, date)>>) \o parsed.content

\* variant: the whole frontmatter is stamped with the date of the review
reviewedContentRestamped(content, date) ==
  LET parsed == parseFrontmatter(content)
  IN  generateFrontmatter(Assign(Assign(parsed.metadata, Entry(KeyCreated, date)),
                                 Entry(KeyReviewDate, date)))
        \o parsed.content

\* the content written to Reviewed: the frontmatter re-generated with
\* review_date set, followed by the text after the frontmatter block
reviewedContent(content, date) ==
  LET parsed == parseFrontmatter(content)
  IN  generateFrontmatter(Assign(parsed.metadata, Entry(KeyReviewDate, date)))
        \o parsed.content

markReviewed(p, filename) ==
  /\ Idle(p)
  /\ Called
  /\ ops' = [ops EXCEPT ![p] =
       [NewOp("markReviewed") EXCEPT !.filename = filename, !.pc = "get"]]
  /\ UNCHANGED <<vault, now, created, faults, codec, cli>>

\* variant: a plan that is not in Inbox is looked up in Reviewed
MarkReviewedGetAnywhere(p, mayFail) ==
  /\ ops[p].name = "markReviewed" /\ ops[p].pc = "get"
  /\ \E fail \in FailChoices(p, mayFail) :
       /\ Fault(fail)
       /\ LET inboxPath == IF Exists(vault, PathOf(FolderInbox, ops[p].filename))
                           THEN PathOf(FolderInbox, ops[p].filename)
                           ELSE PathOf(FolderReviewed, ops[p].filename)
              r == getFile(vault, inboxPath, fail)
              op == Logged(ops[p], "getFile", inboxPath, r.ok, fail)
          IN  ops' = [ops EXCEPT ![p] =
                IF r.ok
                THEN [op EXCEPT !.pc = "put", !.content = r.content, !.sourcePath = inboxPath,
                                !.out = reviewedContent(r.content, FormatDate(DayOf(now)))]
                ELSE Throw(op, MarkReviewedError)]
  /\ UNCHANGED <<vault, now, calls, created, codec, cli>>

\* variant: a failed read of the Inbox copy is issued again
MarkReviewedGetRetries(p, mayFail) ==
  /\ ops[p].name = "markReviewed" /\ ops[p].pc = "get"
  /\ \E fail \in FailChoices(p, mayFail) :
       /\ Fault(fail)
       /\ LET inboxPath == PathOf(FolderInbox, ops[p].filename)
              r == getFile(vault, inboxPath, fail)
              op == Logged(ops[p], "getFile", inboxPath, r.ok, fail)
          IN  ops' = [ops EXCEPT ![p] =
                IF r.ok
                THEN [op EXCEPT !.pc = "put", !.content = r.content, !.sourcePath = inboxPath,
                                !.out = reviewedContent(r.content, FormatDate(DayOf(now)))]
                ELSE IF fail THEN op
                ELSE Throw(op, MarkReviewedError)]
  /\ UNCHANGED <<vault, now, calls, created, codec, cli>>

MarkReviewedGet(p, mayFail) ==
  /\ ops[p].name = "markReviewed" /\ ops[p].pc = "get"
  /\ \E fail \in FailChoices(p, mayFail) :
       /\ Fault(fail)
       /\ LET inboxPath == PathOf(FolderInbox, ops[p].filename)
              r == getFile(vault, inboxPath, fail)
              op == Logged(ops[p], "getFile", inboxPath, r.ok, fail)
          IN  ops' = [ops EXCEPT ![p] =
                IF r.ok
                THEN [op EXCEPT !.pc = "put", !.content = r.content, !.sourcePath = inboxPath,
                                !.out = reviewedContent(r.content, FormatDate(DayOf(now)))]
                ELSE Throw(op, MarkReviewedError)]
  /\ UNCHANGED <<vault, now, calls, created, codec, cli>>

\* variant: the outcome of the write is not looked at
MarkReviewedPutUnchecked(p, mayFail) ==
  /\ ops[p].name = "markReviewed" /\ ops[p].pc = "put"
  /\ \E fail \in FailChoices(p, mayFail) :
       /\ Fault(fail)
       /\ LET reviewedPath == PathOf(FolderReviewed, ops[p].filename)
              r == createOrUpdateFile(vault, reviewedPath, ops[p].out, fail)
              op == Logged(ops[p], "createOrUpdateFile", reviewedPath, r.ok, fail)
          IN  /\ vault' = r.vault
              /\ ops' = [ops EXCEPT ![p] = [op EXCEPT !.pc = "del"]]
  /\ UNCHANGED <<now, calls, created, codec, cli>>

MarkReviewedPut(p, mayFail) ==
  /\ ops[p].name = "markReviewed" /\ ops[p].pc = "put"
  /\ \E fail \in FailChoices(p, mayFail) :
       /\ Fault(fail)
       /\ LET reviewedPath == PathOf(FolderReviewed, ops[p].filename)
              r == createOrUpdateFile(vault, reviewedPath, ops[p].out, fail)
              op == Logged(ops[p], "createOrUpdateFile", reviewedPath, r.ok, fail)
          IN  /\ vault' = r.vault
              /\ ops' = [ops EXCEPT ![p] =
                   IF r.ok THEN [op EXCEPT !.pc = "del"] ELSE Throw(op, MarkReviewedError)]
  /\ UNCHANGED <<now, calls, created, codec, cli>>

MarkReviewedDelete(p, mayFail) ==
  /\ ops[p].name = "markReviewed" /\ ops[p].pc = "del"
  /\ \E fail \in FailChoices(p, mayFail) :
       /\ Fault(fail)
       /\ LET inboxPath == PathOf(FolderInbox, ops[p].filename)
              r == deleteFile(vault, inboxPath, fail)
              op == Logged(ops[p], "deleteFile", inboxPath, r.ok, fail)
          IN  /\ vault' = r.vault
              /\ ops' = [ops EXCEPT ![p] =
                   IF r.ok THEN [op EXCEPT !.pc = "done", !.result = "ok"] ELSE Throw(op, MarkReviewedError)]
  /\ UNCHANGED <<now, calls, created, codec, cli>>

(***************************************************************************)
(* archivePlan, also as called by archiveOldReviewed for each old plan.    *)
(***************************************************************************)
\* if (plan.metadata?.review_date) { if (new Date(review_date) < cutoffDate)
isOld(plan, cutoff) ==
  /\ plan.hasMeta
  /\ LET rd == Get(plan.metadata, KeyReviewDate)
     IN  /\ rd.d /\ rd.v # <<>>
         /\ ParseDate(rd.v).valid
         /\ ParseDate(rd.v).t < cutoff

cutoffDate(at, daysOld) == at - daysOld * TicksPerDay

\* the loop of archiveOldReviewed from plan number op.next on: the next old
\* plan is handed to archivePlan, and the count is returned after the last
archiveLoop(op) ==
  LET old == {j \in op.next..Len(op.plans) :
                isOld(op.plans[j], cutoffDate(op.at, op.daysOld))}
  IN  IF old = {} THEN [op EXCEPT !.pc = "done", !.result = "ok", !.next = Len(op.plans) + 1]
      ELSE LET j == SetMin(old)
           IN  [op EXCEPT !.pc = "aget", !.idx = 1, !.next = j + 1,
                          !.filename = LastSegment(op.plans[j].path)]

\* archivePlan returns true
archiveReturn(op) ==
  IF op.name = "archiveOldReviewed" THEN archiveLoop([op EXCEPT !.count = @ + 1])
  ELSE [op EXCEPT !.pc = "done", !.result = "ok"]

\* variant: the key "archive" is probed like the others
archiveSourcesAll == folders

\* variant: Reviewed is probed before Inbox
archiveSourcesReviewedFirst == <<FolderReviewed, FolderInbox>>

\* the folders archivePlan probes: the entries of folders in order, the key
\* "archive" skipped
archiveSources == SelectSeq(folders, LAMBDA f : f # FolderArchive)

\* the catch block of archivePlan: any failure moves on to the next folder;
\* after the last one the not-found error is thrown
\* variant: archiveOldReviewed passes over a plan archivePlan failed on
archiveCatchGoesOn(op) ==
  IF op.idx + 1 <= Len(archiveSources) THEN [op EXCEPT !.pc = "aget", !.idx = @ + 1]
  ELSE IF op.name = "archiveOldReviewed" THEN archiveLoop(op)
  ELSE Throw(op, NotFoundError)

archiveCatch(op) ==
  IF op.idx + 1 <= Len(archiveSources) THEN [op EXCEPT !.pc = "aget", !.idx = @ + 1] ELSE Throw(op, NotFoundError)

archivePlan(p, filename) ==
  /\ Idle(p)
  /\ Called
  /\ ops' = [ops EXCEPT ![p] =
       [NewOp("archivePlan") EXCEPT !.filename = filename, !.pc = "aget", !.idx = 1]]
  /\ UNCHANGED <<vault, now, created, faults, codec, cli>>

ArchiveGet(p, mayFail) ==
  /\ ops[p].name \in {"archivePlan", "archiveOldReviewed"} /\ ops[p].pc = "aget"
  /\ \E fail \in FailChoices(p, mayFail) :
       /\ Fault(fail)
       /\ LET sourcePath == PathOf(archiveSources[ops[p].idx], ops[p].filename)
              r == getFile(vault, sourcePath, fail)
              op == Logged(ops[p], "getFile", sourcePath, r.ok, fail)
          IN  ops' = [ops EXCEPT ![p] =
                IF r.ok
                THEN [op EXCEPT !.pc = "aput", !.content = r.content, !.sourcePath = sourcePath]
                ELSE archiveCatch(op)]
  /\ UNCHANGED <<vault, now, calls, created, codec, cli>>

\* variant: the source is deleted without the copy having been written
ArchivePutDropped(p, mayFail) ==
  /\ ops[p].name \in {"archivePlan", "archiveOldReviewed"} /\ ops[p].pc = "aput"
  /\ \E fail \in FailChoices(p, mayFail) :
       /\ Fault(fail)
       /\ LET archivePath == PathOf(FolderArchive, ops[p].filename)
              op == Logged(ops[p], "createOrUpdateFile", archivePath, ~fail, fail)
          IN  ops' = [ops EXCEPT ![p] =
                IF ~fail THEN [op EXCEPT !.pc = "adel"] ELSE archiveCatch(op)]
  /\ UNCHANGED <<vault, now, calls, created, codec, cli>>

ArchivePut(p, mayFail) ==
  /\ ops[p].name \in {"archivePlan", "archiveOldReviewed"} /\ ops[p].pc = "aput"
  /\ \E fail \in FailChoices(p, mayFail) :
       /\ Fault(fail)
       /\ LET archivePath == PathOf(FolderArchive, ops[p].filename)
              r == createOrUpdateFile(vault, archivePath, ops[p].content, fail)
              op == Logged(ops[p], "createOrUpdateFile", archivePath, r.ok, fail)
          IN  /\ vault' = r.vault
              /\ ops' = [ops EXCEPT ![p] =
                   IF r.ok THEN [op EXCEPT !.pc = "adel"] ELSE archiveCatch(op)]
  /\ UNCHANGED <<now, calls, created, codec, cli>>

\* variant: the source copy is left in place
ArchiveDeleteKeeps(p, mayFail) ==
  /\ ops[p].name \in {"archivePlan", "archiveOldReviewed"} /\ ops[p].pc = "adel"
  /\ vault' = vault
  /\ ops' = [ops EXCEPT ![p] = archiveReturn(ops[p])]
  /\ UNCHANGED <<now, calls, created, faults, codec, cli>>

ArchiveDelete(p, mayFail) ==
  /\ ops[p].name \in {"archivePlan", "archiveOldReviewed"} /\ ops[p].pc = "adel"
  /\ \E fail \in FailChoices(p, mayFail) :
       /\ Fault(fail)
       /\ LET r == deleteFile(vault, ops[p].sourcePath, fail)
              op == Logged(ops[p], "deleteFile", ops[p].sourcePath, r.ok, fail)
          IN  /\ vault' = r.vault
              /\ ops' = [ops EXCEPT ![p] =
                   IF r.ok THEN archiveReturn(op) ELSE archiveCatch(op)]
  /\ UNCHANGED <<now, calls, created, codec, cli>>

(***************************************************************************)
(* movePlan                                                                *)
(***************************************************************************)
movePlan(p, filename, targetFolder) ==
  /\ Idle(p)
  /\ Called
  /\ ops' = [ops EXCEPT ![p] =
       [NewOp("movePlan") EXCEPT !.filename = filename, !.target = targetFolder,
                                 !.pc = "mget", !.idx = 1]]
  /\ UNCHANGED <<vault, now, created, faults, codec, cli>>

\* the probe loop; a copy whose content is the empty string counts as not found
MovePlanGet(p, mayFail) ==
  /\ ops[p].name = "movePlan" /\ ops[p].pc = "mget"
  /\ \E fail \in FailChoices(p, mayFail) :
       /\ Fault(fail)
       /\ LET testPath == PathOf(folders[ops[p].idx], ops[p].filename)
              r == getFile(vault, testPath, fail)
              op == Logged(ops[p], "getFile", testPath, r.ok, fail)
          IN  ops' = [ops EXCEPT ![p] =
                IF r.ok
                THEN IF r.content = <<>> THEN Throw(op, MovePlanError)
                     ELSE [op EXCEPT !.pc = "mput", !.content = r.content, !.sourcePath = testPath]
                ELSE IF op.idx + 1 <= Len(folders) THEN [op EXCEPT !.idx = @ + 1]
                     ELSE Throw(op, MovePlanError)]
  /\ UNCHANGED <<vault, now, calls, created, codec, cli>>

MovePlanPut(p, mayFail) ==
  /\ ops[p].name = "movePlan" /\ ops[p].pc = "mput"
  /\ \E fail \in FailChoices(p, mayFail) :
       /\ Fault(fail)
       /\ LET targetPath == PathOf(folders[ops[p].target], ops[p].filename)
              r == createOrUpdateFile(vault, targetPath, ops[p].content, fail)
              op == Logged(ops[p], "createOrUpdateFile", targetPath, r.ok, fail)
          IN  /\ vault' = r.vault
              /\ ops' = [ops EXCEPT ![p] =
                   IF r.ok THEN [op EXCEPT !.pc = "mdel"] ELSE Throw(op, MovePlanError)]
  /\ UNCHANGED <<now, calls, created, codec, cli>>

MovePlanDelete(p, mayFail) ==
  /\ ops[p].name = "movePlan" /\ ops[p].pc = "mdel"
  /\ \E fail \in FailChoices(p, mayFail) :
       /\ Fault(fail)
       /\ LET r == deleteFile(vault, ops[p].sourcePath, fail)
              op == Logged(ops[p], "deleteFile", ops[p].sourcePath, r.ok, fail)
          IN  /\ vault' = r.vault
              /\ ops' = [ops EXCEPT ![p] =
                   IF r.ok THEN [op EXCEPT !.pc = "done", !.result = "ok"] ELSE Throw(op, MovePlanError)]
  /\ UNCHANGED <<now, calls, created, codec, cli>>

(***************************************************************************)
(* listTechnicalPlans, also as the first phase of archiveOldReviewed.      *)
(***************************************************************************)
\* getFile(folderPath + "/") answers with the JSON listing of the folder,
\* decoded here as the sequence of entry names in the order the gateway
\* chose; a folder without entries does not exist and the read fails
listDirectory(v, folder, fail) ==
  IF fail \/ DirEntries(v, folder) = {} THEN [ok |-> FALSE, files |-> {}]
  ELSE [ok |-> TRUE, files |-> DirEntries(v, folder)]

Orderings(S) ==
  {s \in [1..Cardinality(S) -> S] : \A i, j \in 1..Cardinality(S) : s[i] = s[j] => i = j}

\* the listing is complete
listReturn(op) ==
  IF op.name = "archiveOldReviewed" THEN archiveLoop([op EXCEPT !.next = 1])
  ELSE [op EXCEPT !.pc = "done", !.result = "ok"]

\* the next folder of the for loop over folders
nextFolder(op) ==
  IF Len(op.dirs) > 1 THEN [op EXCEPT !.dirs = Tail(@), !.todo = <<>>, !.pc = "list"]
  ELSE listReturn([op EXCEPT !.dirs = <<>>, !.todo = <<>>])

\* folder = 0 stands for the omitted argument
listTechnicalPlans(p, folder) ==
  /\ Idle(p)
  /\ Called
  /\ ops' = [ops EXCEPT ![p] =
       [NewOp("listTechnicalPlans") EXCEPT
           !.target = folder, !.pc = "list",
           !.dirs = IF folder = 0 THEN folders ELSE <<folders[folder]>>]]
  /\ UNCHANGED <<vault, now, created, faults, codec, cli>>

\* variant: every entry of the folder is taken for a plan
ListDirUnfiltered(p, mayFail) ==
  /\ ops[p].name \in {"listTechnicalPlans", "archiveOldReviewed"} /\ ops[p].pc = "list"
  /\ \E fail \in FailChoices(p, mayFail), garbled \in FailChoices(p, mayFail) :
       /\ ~(fail /\ garbled)
       /\ Fault(fail \/ garbled)
       /\ LET folderPath == Head(ops[p].dirs)
              r == listDirectory(vault, folderPath, fail)
              op == Logged(ops[p], "getFile", folderPath \o <<"/">>, r.ok, fail \/ garbled)
          IN  \E order \in Orderings(r.files) :
                ops' = [ops EXCEPT ![p] =
                  IF r.ok /\ ~garbled /\ order # <<>>
                  THEN [op EXCEPT !.todo = order, !.pc = "read"]
                  ELSE nextFolder(op)]
  /\ UNCHANGED <<vault, now, calls, created, codec, cli>>

\* variant: a folder that cannot be listed ends the call with the error
ListDirRaises(p, mayFail) ==
  /\ ops[p].name \in {"listTechnicalPlans", "archiveOldReviewed"} /\ ops[p].pc = "list"
  /\ \E fail \in FailChoices(p, mayFail), garbled \in FailChoices(p, mayFail) :
       /\ ~(fail /\ garbled)
       /\ Fault(fail \/ garbled)
       /\ LET folderPath == Head(ops[p].dirs)
              r == listDirectory(vault, folderPath, fail)
              op == Logged(ops[p], "getFile", folderPath \o <<"/">>, r.ok, fail \/ garbled)
              mdFiles == {f \in r.files : EndsWith(f, ExtMd)}
          IN  \E order \in Orderings(mdFiles) :
                ops' = [ops EXCEPT ![p] =
                  IF ~r.ok \/ garbled THEN Throw(op, GatewayError)
                  ELSE IF order # <<>> THEN [op EXCEPT !.todo = order, !.pc = "read"]
                  ELSE nextFolder(op)]
  /\ UNCHANGED <<vault, now, calls, created, codec, cli>>

\* garbled: the read succeeds but the body is no JSON listing (JSON.parse
\* throws, or there is no files array), which the outer catch swallows
ListDir(p, mayFail) ==
  /\ ops[p].name \in {"listTechnicalPlans", "archiveOldReviewed"} /\ ops[p].pc = "list"
  /\ \E fail \in FailChoices(p, mayFail), garbled \in FailChoices(p, mayFail) :
       /\ ~(fail /\ garbled)
       /\ Fault(fail \/ garbled)
       /\ LET folderPath == Head(ops[p].dirs)
              r == listDirectory(vault, folderPath, fail)
              op == Logged(ops[p], "getFile", folderPath \o <<"/">>, r.ok, fail \/ garbled)
              mdFiles == {f \in r.files : EndsWith(f, ExtMd)}
          IN  \E order \in Orderings(mdFiles) :
                ops' = [ops EXCEPT ![p] =
                  IF r.ok /\ ~garbled /\ order # <<>>
                  THEN [op EXCEPT !.todo = order, !.pc = "read"]
                  ELSE nextFolder(op)]
  /\ UNCHANGED <<vault, now, calls, created, codec, cli>>

\* variant: an entry that cannot be read is left out
ListReadDrops(p, mayFail) ==
  /\ ops[p].name \in {"listTechnicalPlans", "archiveOldReviewed"} /\ ops[p].pc = "read"
  /\ \E fail \in FailChoices(p, mayFail) :
       /\ Fault(fail)
       /\ LET filepath == PathOf(Head(ops[p].dirs), Head(ops[p].todo))
              r == getFile(vault, filepath, fail)
              op == Logged(ops[p], "getFile", filepath, r.ok, fail)
              info == [path |-> filepath, hasMeta |-> TRUE,
                       metadata |-> parseFrontmatter(r.content).metadata]
              pushed == [op EXCEPT !.plans = IF r.ok THEN Append(@, info) ELSE @,
                                   !.todo = Tail(@)]
          IN  ops' = [ops EXCEPT ![p] =
                IF pushed.todo # <<>> THEN pushed ELSE nextFolder(pushed)]
  /\ UNCHANGED <<vault, now, calls, created, codec, cli>>

\* variant: a plan that was read is written back with its metadata block
\* generated anew
ListReadRewrites(p, mayFail) ==
  /\ ops[p].name \in {"listTechnicalPlans", "archiveOldReviewed"} /\ ops[p].pc = "read"
  /\ \E fail \in FailChoices(p, mayFail) :
       /\ Fault(fail)
       /\ LET filepath == PathOf(Head(ops[p].dirs), Head(ops[p].todo))
              r == getFile(vault, filepath, fail)
              op == Logged(ops[p], "getFile", filepath, r.ok, fail)
              parsed == parseFrontmatter(r.content)
              info == IF r.ok
                      THEN [path |-> filepath, hasMeta |-> TRUE, metadata |-> parsed.metadata]
                      ELSE [path |-> filepath, hasMeta |-> FALSE, metadata |-> <<>>]
              pushed == [op EXCEPT !.plans = Append(@, info), !.todo = Tail(@)]
              written == IF r.ok THEN Logged(pushed, "createOrUpdateFile", filepath, TRUE, FALSE)
                         ELSE pushed
          IN  /\ vault' = IF r.ok
                          THEN createOrUpdateFile(vault, filepath,
                                 generateFrontmatter(parsed.metadata) \o parsed.content, FALSE).vault
                          ELSE vault
              /\ ops' = [ops EXCEPT ![p] =
                   IF written.todo # <<>> THEN written ELSE nextFolder(written)]
  /\ UNCHANGED <<now, calls, created, codec, cli>>

ListRead(p, mayFail) ==
  /\ ops[p].name \in {"listTechnicalPlans", "archiveOldReviewed"} /\ ops[p].pc = "read"
  /\ \E fail \in FailChoices(p, mayFail) :
       /\ Fault(fail)
       /\ LET filepath == PathOf(Head(ops[p].dirs), Head(ops[p].todo))
              r == getFile(vault, filepath, fail)
              op == Logged(ops[p], "getFile", filepath, r.ok, fail)
              info == IF r.ok
                      THEN [path |-> filepath, hasMeta |-> TRUE,
                            metadata |-> parseFrontmatter(r.content).metadata]
                      ELSE [path |-> filepath, hasMeta |-> FALSE, metadata |-> <<>>]
              pushed == [op EXCEPT !.plans = Append(@, info), !.todo = Tail(@)]
          IN  ops' = [ops EXCEPT ![p] =
                IF pushed.todo # <<>> THEN pushed ELSE nextFolder(pushed)]
  /\ UNCHANGED <<vault, now, calls, created, codec, cli>>

(***************************************************************************)
(* archiveOldReviewed                                                      *)
(***************************************************************************)
archiveOldReviewed(p, daysOld) ==
  /\ Idle(p)
  /\ Called
  /\ ops' = [ops EXCEPT ![p] =
       [NewOp("archiveOldReviewed") EXCEPT
           !.daysOld = daysOld, !.pc = "list", !.dirs = <<FolderReviewed>>]]
  /\ UNCHANGED <<vault, now, created, faults, codec, cli>>

(***************************************************************************)
(* initializeStructure                                                     *)
(***************************************************************************)
\* the flat list of all paths of the vault
listFiles(v, fail) ==
  IF fail THEN [ok |-> FALSE, files |-> {}] ELSE [ok |-> TRUE, files |-> DOMAIN v]

InitializeError == "Failed to initialize Technical Plans structure"
Placeholder == <<".", "g", "i", "t", "k", "e", "e", "p">>
PlaceholderContent ==
  <<"#", " ", "T", "h", "i", "s", " ", "f", "i", "l", "e", " ", "e", "n", "s", "u", "r", "e", "s", " ",
    "t", "h", "e", " ", "d", "i", "r", "e", "c", "t", "o", "r", "y", " ", "e", "x", "i", "s", "t", "s", "\n">>

\* allFiles.files.some((f) => f.startsWith(folder + "/") || f === folder)
folderExists(files, folder) ==
  \E f \in files : StartsWith(f, folder \o <<"/">>) \/ f = folder

\* the for loop from its current folder on: folders that exist in the
\* listing are passed over, the next missing one gets its placeholder
initLoop(op) ==
  LET missing == SelectSeq(op.dirs, LAMBDA f : ~folderExists(op.allFiles, f))
  IN  IF missing = <<>> THEN [op EXCEPT !.pc = "done", !.result = "ok", !.dirs = <<>>]
      ELSE [op EXCEPT !.pc = "iput", !.dirs = missing]

initializeStructure(p) ==
  /\ Idle(p)
  /\ Called
  /\ ops' = [ops EXCEPT ![p] =
       [NewOp("initializeStructure") EXCEPT !.pc = "ilist", !.dirs = folders]]
  /\ UNCHANGED <<vault, now, created, faults, codec, cli>>

\* variant: the placeholder is written whether or not the folder exists
InitListAlways(p, mayFail) ==
  /\ ops[p].name = "initializeStructure" /\ ops[p].pc = "ilist"
  /\ \E fail \in FailChoices(p, mayFail) :
       /\ Fault(fail)
       /\ LET r == listFiles(vault, fail)
              op == Logged(ops[p], "listFiles", <<>>, r.ok, fail)
          IN  ops' = [ops EXCEPT ![p] =
                IF r.ok THEN initLoop([op EXCEPT !.allFiles = {}])
                ELSE Throw(op, InitializeError)]
  /\ UNCHANGED <<vault, now, calls, created, codec, cli>>

\* const allFiles = await this.apiClient.listFiles(): op.allFiles holds the
\* listing for the rest of the call
InitList(p, mayFail) ==
  /\ ops[p].name = "initializeStructure" /\ ops[p].pc = "ilist"
  /\ \E fail \in FailChoices(p, mayFail) :
       /\ Fault(fail)
       /\ LET r == listFiles(vault, fail)
              op == Logged(ops[p], "listFiles", <<>>, r.ok, fail)
          IN  ops' = [ops EXCEPT ![p] =
                IF r.ok THEN initLoop([op EXCEPT !.allFiles = r.files])
                ELSE Throw(op, InitializeError)]
  /\ UNCHANGED <<vault, now, calls, created, codec, cli>>

\* variant: a failed write of a placeholder is passed over
InitPutSwallows(p, mayFail) ==
  /\ ops[p].name = "initializeStructure" /\ ops[p].pc = "iput"
  /\ \E fail \in FailChoices(p, mayFail) :
       /\ Fault(fail)
       /\ LET placeholderPath == PathOf(Head(ops[p].dirs), Placeholder)
              r == createOrUpdateFile(vault, placeholderPath, PlaceholderContent, fail)
              op == Logged(ops[p], "createOrUpdateFile", placeholderPath, r.ok, fail)
          IN  /\ vault' = r.vault
              /\ ops' = [ops EXCEPT ![p] = initLoop([op EXCEPT !.dirs = Tail(@)])]
  /\ UNCHANGED <<now, calls, created, codec, cli>>

\* variant: the file written into an empty folder is a note
InitPutNote(p, mayFail) ==
  /\ ops[p].name = "initializeStructure" /\ ops[p].pc = "iput"
  /\ \E fail \in FailChoices(p, mayFail) :
       /\ Fault(fail)
       /\ LET placeholderPath == PathOf(Head(ops[p].dirs), <<"R", "E", "A", "D", "M", "E">> \o ExtMd)
              r == createOrUpdateFile(vault, placeholderPath, PlaceholderContent, fail)
              op == Logged(ops[p], "createOrUpdateFile", placeholderPath, r.ok, fail)
          IN  /\ vault' = r.vault
              /\ ops' = [ops EXCEPT ![p] =
                   IF r.ok THEN initLoop([op EXCEPT !.dirs = Tail(@)])
                   ELSE Throw(op, InitializeError)]
  /\ UNCHANGED <<now, calls, created, codec, cli>>

InitPut(p, mayFail) ==
  /\ ops[p].name = "initializeStructure" /\ ops[p].pc = "iput"
  /\ \E fail \in FailChoices(p, mayFail) :
       /\ Fault(fail)
       /\ LET placeholderPath == PathOf(Head(ops[p].dirs), Placeholder)
              r == createOrUpdateFile(vault, placeholderPath, PlaceholderContent, fail)
              op == Logged(ops[p], "createOrUpdateFile", placeholderPath, r.ok, fail)
          IN  /\ vault' = r.vault
              /\ ops' = [ops EXCEPT ![p] =
                   IF r.ok THEN initLoop([op EXCEPT !.dirs = Tail(@)])
                   ELSE Throw(op, InitializeError)]
  /\ UNCHANGED <<now, calls, created, codec, cli>>

(***************************************************************************)
(* getPlanMetadata                                                         *)
(***************************************************************************)
getPlanMetadata(p, filename) ==
  /\ Idle(p)
  /\ Called
  /\ ops' = [ops EXCEPT ![p] =
       [NewOp("getPlanMetadata") EXCEPT !.filename = filename, !.pc = "pget", !.idx = 1]]
  /\ UNCHANGED <<vault, now, created, faults, codec, cli>>

\* variant: the loop stops at the first folder that cannot be read
PlanMetadataGetFirst(p, mayFail) ==
  /\ ops[p].name = "getPlanMetadata" /\ ops[p].pc = "pget"
  /\ \E fail \in FailChoices(p, mayFail) :
       /\ Fault(fail)
       /\ LET filepath == PathOf(folders[ops[p].idx], ops[p].filename)
              r == getFile(vault, filepath, fail)
              op == Logged(ops[p], "getFile", filepath, r.ok, fail)
          IN  ops' = [ops EXCEPT ![p] =
                IF r.ok
                THEN [op EXCEPT !.pc = "done", !.result = "ok", !.sourcePath = filepath,
                                !.ret = parseFrontmatter(r.content).metadata]
                ELSE [op EXCEPT !.pc = "done", !.result = "ok", !.isNull = TRUE]]
  /\ UNCHANGED <<vault, now, calls, created, codec, cli>>

\* one turn of the loop over Object.values(this.folders)
PlanMetadataGet(p, mayFail) ==
  /\ ops[p].name = "getPlanMetadata" /\ ops[p].pc = "pget"
  /\ \E fail \in FailChoices(p, mayFail) :
       /\ Fault(fail)
       /\ LET filepath == PathOf(folders[ops[p].idx], ops[p].filename)
              r == getFile(vault, filepath, fail)
              op == Logged(ops[p], "getFile", filepath, r.ok, fail)
          IN  ops' = [ops EXCEPT ![p] =
                IF r.ok
                THEN [op EXCEPT !.pc = "done", !.result = "ok", !.sourcePath = filepath,
                                !.ret = parseFrontmatter(r.content).metadata]
                ELSE IF op.idx + 1 <= Len(folders) THEN [op EXCEPT !.idx = @ + 1]
                ELSE [op EXCEPT !.pc = "done", !.result = "ok", !.isNull = TRUE]]
  /\ UNCHANGED <<vault, now, calls, created, codec, cli>>

(***************************************************************************)
(* putFileEnhanced                                                         *)
(***************************************************************************)
UpperChars == <<"A", "B", "C", "D", "E", "F", "G", "H", "I", "J", "K", "L", "M",
                "N", "O", "P", "Q", "R", "S", "T", "U", "V", "W", "X", "Y", "Z">>
LowerChars == <<"a", "b", "c", "d", "e", "f", "g", "h", "i", "j", "k", "l", "m",
                "n", "o", "p", "q", "r", "s", "t", "u", "v", "w", "x", "y", "z">>

toLowerCase(s) ==
  [i \in 1..Len(s) |->
     IF \E k \in 1..Len(UpperChars) : UpperChars[k] = s[i]
     THEN LowerChars[CHOOSE k \in 1..Len(UpperChars) : UpperChars[k] = s[i]]
     ELSE s[i]]

\* the positions at which pat occurs in s
Occurrences(s, pat) ==
  {i \in 1..(Len(s) - Len(pat) + 1) : SubSeq(s, i, i + Len(pat) - 1) = pat}

Includes(s, pat) == Occurrences(s, pat) # {}

\* s.replace(pat, rep) with a string pattern: the first occurrence only
ReplaceFirst(s, pat, rep) ==
  IF ~Includes(s, pat) THEN s
  ELSE LET i == SetMin(Occurrences(s, pat))
       IN  SubSeq(s, 1, i - 1) \o rep \o SubSeq(s, i + Len(pat), Len(s))

keywords ==
  {<<"p", "l", "a", "n">>,
   <<"a", "r", "c", "h", "i", "t", "e", "c", "t", "u", "r", "e">>,
   <<"d", "e", "s", "i", "g", "n">>,
   <<"i", "m", "p", "l", "e", "m", "e", "n", "t", "a", "t", "i", "o", "n">>,
   <<"t", "e", "c", "h", "n", "i", "c", "a", "l">>,
   <<"s", "y", "s", "t", "e", "m">>}

isTechnicalPlan(content) ==
  \E keyword \in keywords : Includes(toLowerCase(content), keyword)

Unnamed == <<"U", "n", "n", "a", "m", "e", "d">>

\* the metadata putFileEnhanced makes up for a routed plan
routedMetadata(path) ==
  LET stem == ReplaceFirst(LastSegment(path), ExtMd, <<>>)
  IN  <<Entry(KeySource, DefaultSource), Entry(KeyType, DefaultType),
        Entry(KeyProject, IF stem # <<>> THEN stem ELSE Unnamed),
        Entry(KeyPriority, DefaultPriority)>>

\* content that reads as a technical plan and is not addressed below the
\* base path goes through createTechnicalPlan; anything else is written to
\* the path as it is
putFileEnhanced(p, path, content) ==
  /\ Idle(p)
  /\ Called
  /\ created < MaxCreates
  /\ created' = created + 1
  /\ LET op == [NewOp("putFileEnhanced") EXCEPT !.body = content]
         date == FormatDate(DayOf(now))
         full == fullMetadata(date, routedMetadata(path))
     IN  ops' = [ops EXCEPT ![p] =
           IF isTechnicalPlan(content) /\ ~StartsWith(path, basePath)
           THEN [op EXCEPT !.pc = "put", !.arg = routedMetadata(path),
                           !.filename = generateFilename(date, Get(full, KeyProject).v,
                                                         Get(full, KeyType).v),
                           !.out = generateFrontmatter(full) \o content]
           ELSE [op EXCEPT !.pc = "rput", !.sourcePath = path, !.out = content]]
  /\ UNCHANGED <<vault, now, faults, codec, cli>>

PutRaw(p, mayFail) ==
  /\ ops[p].name = "putFileEnhanced" /\ ops[p].pc = "rput"
  /\ \E fail \in FailChoices(p, mayFail) :
       /\ Fault(fail)
       /\ LET r == createOrUpdateFile(vault, ops[p].sourcePath, ops[p].out, fail)
              op == Logged(ops[p], "createOrUpdateFile", ops[p].sourcePath, r.ok, fail)
          IN  /\ vault' = r.vault
              /\ ops' = [ops EXCEPT ![p] =
                   IF r.ok THEN [op EXCEPT !.pc = "done", !.result = "ok"]
                   ELSE Throw(op, GatewayError)]
  /\ UNCHANGED <<now, calls, created, codec, cli>>

(***************************************************************************)
(* The tool handlers of createToolHandlers.  A text built by a template    *)
(* literal is the sequence of its parts.  A thrown value is an Error with  *)
(* a message (isError) or any other value.                                 *)
(***************************************************************************)
Tools ==
  {"ping", "listFiles", "getFile", "putFile", "deleteFile", "patchFile", "listCommands",
   "executeCommand", "getActive", "replaceActive", "patchActive", "appendActive"}

\* the first argument of createErrorResponse in the catch block of each handler
operationOf(tool) ==
  CASE tool = "ping" -> "connect to Obsidian"
    [] tool = "listFiles" -> "list files"
    [] tool = "getFile" -> "get file"
    [] tool = "putFile" -> "create/update file"
    [] tool = "deleteFile" -> "delete file"
    [] tool = "patchFile" -> "patch file"
    [] tool = "listCommands" -> "list commands"
    [] tool = "executeCommand" -> "execute command"
    [] tool = "getActive" -> "get active file"
    [] tool = "replaceActive" -> "replace active file"
    [] tool = "patchActive" -> "patch active file"
    [] tool = "appendActive" -> "append to active file"

UnknownError == "Unknown error"

\* variant: the message is read off the thrown value whatever it is
createErrorResponseRaw(operation, error) ==
  [content |-> <<[type |-> "text", text |-> <<"Failed to ", operation, ": ", error.message>>]>>,
   hasIsError |-> TRUE, isError |-> TRUE]

createErrorResponse(operation, error) ==
  LET message == IF error.isError THEN error.message ELSE UnknownError
  IN  [content |-> <<[type |-> "text", text |-> <<"Failed to ", operation, ": ", message>>]>>,
       hasIsError |-> TRUE, isError |-> TRUE]

createSuccessResponse(text) ==
  [content |-> <<[type |-> "text", text |-> text]>>, hasIsError |-> FALSE, isError |-> FALSE]

\* what the server answers where the vault does not decide it
StatusPayload == [obsidian |-> "1.5.3", name |-> "Local REST API", version |-> "3.0"]
CommandsPayload == <<[id |-> "app:reload", name |-> "Reload app"], [id |-> "x", name |-> "X"]>>
ActivePayload == "{}"
CommandId == <<"x">>

\* the text of the success response of each handler
successText(tool, path, payload) ==
  CASE tool = "ping" ->
         <<"Connected to Obsidian v", payload.obsidian, " with ", payload.name, " v", payload.version>>
    [] tool = "listFiles" ->
         <<"Found ", Len(payload), " files:\n", Join(payload, <<"\n">>)>>
    [] tool = "getFile" -> <<payload>>
    [] tool = "putFile" -> <<"Successfully created/updated file: ", path>>
    [] tool = "deleteFile" -> <<"Successfully deleted file: ", path>>
    [] tool = "patchFile" -> <<"Successfully patched file: ", path>>
    [] tool = "listCommands" ->
         <<"Available commands (", Len(payload), "):\n",
           [i \in 1..Len(payload) |-> <<payload[i].id, ": ", payload[i].name>>]>>
    [] tool = "executeCommand" -> <<"Successfully executed command: ", path>>
    [] tool = "getActive" -> <<payload>>
    [] tool = "replaceActive" -> <<"Successfully replaced active file content">>
    [] tool = "patchActive" -> <<"Successfully patched active file">>
    [] tool = "appendActive" -> <<"Successfully appended to active file">>

ApiOk(payload, v) == [ok |-> TRUE, payload |-> payload, vault |-> v, thrown |-> IdleOp.thrown]
ApiThrows(error, v) == [ok |-> FALSE, payload |-> <<>>, vault |-> v, thrown |-> error]

\* the outcomes of the one call a handler makes on the client: it throws (an
\* Error of the client, or whatever a stand-in client throws), or it takes
\* effect on the vault; the active file and the commands are outside the
\* vault of this model, and a PATCH, which the server applies to the file
\* in its own way, is taken to append the content
apiCall(v, tool, path, content) ==
  {ApiThrows([isError |-> TRUE, message |-> GatewayError], v),
   ApiThrows([isError |-> FALSE, message |-> "undefined"], v)}
  \cup
  CASE tool = "ping" -> {ApiOk(StatusPayload, v)}
    [] tool = "listFiles" -> {ApiOk(order, v) : order \in Orderings(listFiles(v, FALSE).files)}
    [] tool = "getFile" ->
         IF getFile(v, path, FALSE).ok THEN {ApiOk(getFile(v, path, FALSE).content, v)}
         ELSE {ApiThrows([isError |-> TRUE, message |-> GatewayNotFound], v)}
    [] tool = "putFile" -> {ApiOk(<<>>, createOrUpdateFile(v, path, content, FALSE).vault)}
    [] tool = "deleteFile" ->
         IF deleteFile(v, path, FALSE).ok THEN {ApiOk(<<>>, deleteFile(v, path, FALSE).vault)}
         ELSE {ApiThrows([isError |-> TRUE, message |-> GatewayNotFound], v)}
    [] tool = "patchFile" ->
         IF Exists(v, path) THEN {ApiOk(<<>>, createOrUpdateFile(v, path, v[path] \o content, FALSE).vault)}
         ELSE {ApiThrows([isError |-> TRUE, message |-> GatewayNotFound], v)}
    [] tool = "listCommands" -> {ApiOk(CommandsPayload, v)}
    [] tool = "getActive" -> {ApiOk(ActivePayload, v)}
    [] tool \in {"executeCommand", "replaceActive", "patchActive", "appendActive"} -> {ApiOk(<<>>, v)}

\* a handler is called: everything up to its awaited client call
toolHandler(p, tool, path, content) ==
  /\ Idle(p)
  /\ Called
  /\ ops' = [ops EXCEPT ![p] =
       [NewOp(tool) EXCEPT !.pc = "api", !.sourcePath = path, !.body = content]]
  /\ UNCHANGED <<vault, now, created, faults, codec, cli>>

\* variant: the handler has no catch block
ToolApiUncaught(p) ==
  /\ ops[p].name \in Tools /\ ops[p].pc = "api"
  /\ \E r \in apiCall(vault, ops[p].name, ops[p].sourcePath, ops[p].body) :
       /\ vault' = r.vault
       /\ ops' = [ops EXCEPT ![p] =
            LET op == [Logged(ops[p], ops[p].name, ops[p].sourcePath, r.ok, FALSE)
                         EXCEPT !.thrown = r.thrown]
            IN  IF r.ok
                THEN [op EXCEPT !.pc = "done", !.result = "ok",
                         !.response = createSuccessResponse(
                                        successText(op.name, op.sourcePath, r.payload))]
                ELSE Throw(op, r.thrown.message)]
  /\ UNCHANGED <<now, calls, created, faults, codec, cli>>

\* the client call settles and the handler returns its response
ToolApi(p) ==
  /\ ops[p].name \in Tools /\ ops[p].pc = "api"
  /\ \E r \in apiCall(vault, ops[p].name, ops[p].sourcePath, ops[p].body) :
       /\ vault' = r.vault
       /\ ops' = [ops EXCEPT ![p] =
            LET op == [Logged(ops[p], ops[p].name, ops[p].sourcePath, r.ok, FALSE)
                         EXCEPT !.thrown = r.thrown]
            IN  [op EXCEPT !.pc = "done", !.result = "ok",
                    !.response = IF r.ok
                                 THEN createSuccessResponse(
                                        successText(op.name, op.sourcePath, r.payload))
                                 ELSE createErrorResponse(operationOf(op.name), r.thrown)]]
  /\ UNCHANGED <<now, calls, created, faults, codec, cli>>

(***************************************************************************)
(* Inputs.                                                                 *)
(***************************************************************************)
ProjectP == <<"p">>
ProjectQ == <<"q", "/", "r">>
High == <<"H", "i", "g", "h">>
Claude == <<"C", "l", "a", "u", "d", "e">>
BodyB == <<"#", " ", "P">>
Unparseable == <<"s", "o", "o", "n">>
MissingName == <<"m", "i", "s", "s", "i", "n", "g", ".", "m", "d">>

\* every field supplied by the caller
MetaFull ==
  <<Entry(KeyProject, ProjectP), Entry(KeyType, DefaultType),
    Entry(KeyPriority, High), Entry(KeySource, Claude)>>

\* what the create_technical_plan tool handler passes when the optional
\* priority and source arguments are omitted
MetaHandler ==
  <<Entry(KeyProject, ProjectP), Entry(KeyType, DefaultType),
    UndefEntry(KeyPriority), UndefEntry(KeySource)>>

\* another project, whose name needs sanitising
MetaOther ==
  <<Entry(KeyProject, ProjectQ), Entry(KeyType, DefaultType),
    UndefEntry(KeyPriority), Entry(KeySource, Claude)>>

\* a direct caller of the manager that presets a review date that is no date
MetaPreset ==
  <<Entry(KeyProject, ProjectP), Entry(KeyType, DefaultType),
    Entry(KeyReviewDate, Unparseable)>>

\* what the tool handlers can pass
PlanInputs == {MetaFull, MetaHandler, MetaOther}

\* the names a caller can pass: those of the files in the vault, and one
\* that names no file
Filenames == {LastSegment(q) : q \in DOMAIN vault} \cup {MissingName}

(***************************************************************************)
(* The operations the tool handlers of the server invoke, one call at a    *)
(* time; any gateway call may fail.                                        *)
(***************************************************************************)
Next ==
  \/ Tick
  \/ \E m \in PlanInputs : createTechnicalPlan(1, BodyB, m)
  \/ CreatePut(1, TRUE)
  \/ \E f \in Filenames : markReviewed(1, f)
  \/ MarkReviewedGet(1, TRUE)
  \/ MarkReviewedPut(1, TRUE)
  \/ MarkReviewedDelete(1, TRUE)
  \/ \E f \in Filenames : archivePlan(1, f)
  \/ ArchiveGet(1, TRUE)
  \/ ArchivePut(1, TRUE)
  \/ ArchiveDelete(1, TRUE)
  \/ \E n \in 1..MaxDaysOld : archiveOldReviewed(1, n)
  \/ ListDir(1, TRUE)
  \/ ListRead(1, TRUE)

Spec == Init /\ [][Next]_vars

(***************************************************************************)
(* The same operations when no gateway call fails for a reason other than  *)
(* a missing path.                                                         *)
(***************************************************************************)
NextCore ==
  \/ Tick
  \/ \E m \in PlanInputs : createTechnicalPlan(1, BodyB, m)
  \/ CreatePut(1, FALSE)
  \/ \E f \in Filenames : markReviewed(1, f)
  \/ MarkReviewedGet(1, FALSE)
  \/ MarkReviewedPut(1, FALSE)
  \/ MarkReviewedDelete(1, FALSE)
  \/ \E f \in Filenames : archivePlan(1, f)
  \/ ArchiveGet(1, FALSE)
  \/ ArchivePut(1, FALSE)
  \/ ArchiveDelete(1, FALSE)
  \/ \E n \in 1..MaxDaysOld : archiveOldReviewed(1, n)
  \/ ListDir(1, FALSE)
  \/ ListRead(1, FALSE)

SpecCore == Init /\ [][NextCore]_vars

(***************************************************************************)
(* The public methods of the manager called directly, movePlan (which no   *)
(* tool handler invokes) included, one call at a time.                     *)
(***************************************************************************)
ApiInputs == {MetaHandler, MetaPreset}

NextApi ==
  \/ Tick
  \/ \E m \in ApiInputs : createTechnicalPlan(1, BodyB, m)
  \/ CreatePut(1, TRUE)
  \/ \E f \in Filenames : markReviewed(1, f)
  \/ MarkReviewedGet(1, TRUE)
  \/ MarkReviewedPut(1, TRUE)
  \/ MarkReviewedDelete(1, TRUE)
  \/ \E f \in Filenames : archivePlan(1, f)
  \/ ArchiveGet(1, TRUE)
  \/ ArchivePut(1, TRUE)
  \/ ArchiveDelete(1, TRUE)
  \/ \E f \in Filenames, t \in 1..Len(folders) : movePlan(1, f, t)
  \/ MovePlanGet(1, TRUE)
  \/ MovePlanPut(1, TRUE)
  \/ MovePlanDelete(1, TRUE)
  \/ \E n \in 1..MaxDaysOld : archiveOldReviewed(1, n)
  \/ \E d \in 0..Len(folders) : listTechnicalPlans(1, d)
  \/ ListDir(1, TRUE)
  \/ ListRead(1, TRUE)

SpecApi == Init /\ [][NextApi]_vars

(***************************************************************************)
(* The vault as the manager fills it (placeholders, plans, files written   *)
(* as they are, in and outside the plan folders) and the two methods that  *)
(* read it back, one call at a time; any gateway call may fail.            *)
(***************************************************************************)
NoteName == <<"n", ".", "m", "d">>
OutsidePath == <<"d", "/", "t", ".", "m", "d">>
RawNote == <<"x">>
PlanText == <<"P", "l", "a", "n">>
\* a note with a frontmatter of its own: a key the manager does not know,
\* whose value holds a colon
TaggedNote == <<"-", "-", "-", "\n", "u", ":", " ", "a", ":", "b", "\n", "-", "-", "-", "\n", "z">>

PutPaths == {PathOf(FolderInbox, NoteName), PathOf(FolderReviewed, NoteName), OutsidePath}
PutContents == {RawNote, PlanText, TaggedNote}

NextList ==
  \/ initializeStructure(1)
  \/ InitList(1, TRUE)
  \/ InitPut(1, TRUE)
  \/ createTechnicalPlan(1, BodyB, MetaHandler)
  \/ CreatePut(1, TRUE)
  \/ \E path \in PutPaths, content \in PutContents : putFileEnhanced(1, path, content)
  \/ PutRaw(1, TRUE)
  \/ \E f \in Filenames : markReviewed(1, f)
  \/ MarkReviewedGet(1, TRUE)
  \/ MarkReviewedPut(1, TRUE)
  \/ MarkReviewedDelete(1, TRUE)
  \/ \E f \in Filenames : archivePlan(1, f)
  \/ ArchiveGet(1, TRUE)
  \/ ArchivePut(1, TRUE)
  \/ ArchiveDelete(1, TRUE)
  \/ \E d \in 0..Len(folders) : listTechnicalPlans(1, d)
  \/ ListDir(1, TRUE)
  \/ ListRead(1, TRUE)
  \/ \E f \in Filenames : getPlanMetadata(1, f)
  \/ PlanMetadataGet(1, TRUE)

SpecList == Init /\ [][NextList]_vars

(***************************************************************************)
(* One call of createTechnicalPlan, at any instant, with every combination *)
(* of supplied, omitted and undefined fields.                              *)
(***************************************************************************)
ProjectEmpty == <<>>
ProjectPunct == <<"a", " ", "/", "b", ".">>
Research == <<"R", "e", "s", "e", "a", "r", "c", "h">>
BodyRule == <<"-", "-", "-", "\n", "x">>

Absent == [kind |-> "absent", v |-> <<>>]
Undefined == [kind |-> "undefined", v |-> <<>>]
Value(v) == [kind |-> "value", v |-> v]

\* the property k of an object literal, for each way of passing it
Opt(k, c) ==
  IF c.kind = "absent" THEN <<>>
  ELSE IF c.kind = "undefined" THEN <<UndefEntry(k)>>
  ELSE <<Entry(k, c.v)>>

MetaOf(project, type, priority, source) ==
  Opt(KeyProject, project) \o Opt(KeyType, type)
    \o Opt(KeyPriority, priority) \o Opt(KeySource, source)

CreateProjects == {Absent, Value(ProjectP), Value(ProjectQ), Value(ProjectEmpty), Value(ProjectPunct)}
CreateTypes == {Absent, Value(DefaultType), Value(Research)}
CreatePriorities == {Absent, Undefined, Value(High)}
CreateSources == {Absent, Undefined, Value(Claude)}
CreateBodies == {BodyB, BodyRule, <<>>}

InitCreate ==
  /\ vault = EmptyVault
  /\ now \in 0..(MaxDay * TicksPerDay - 1)
  /\ ops = [p \in Procs |-> IdleOp]
  /\ calls = 0
  /\ created = 0
  /\ faults = 0
  /\ codec = [meta |-> <<>>, body |-> <<>>, done |-> FALSE,
              out |-> [metadata |-> <<>>, content |-> <<>>]]
  /\ cli = CliIdle

NextCreate ==
  \/ /\ ops[1].pc = "idle"
     /\ \E project \in CreateProjects, type \in CreateTypes,
           priority \in CreatePriorities, source \in CreateSources,
           body \in CreateBodies :
          createTechnicalPlan(1, body, MetaOf(project, type, priority, source))
  \/ CreatePut(1, TRUE)

SpecCreate == InitCreate /\ [][NextCreate]_vars

(***************************************************************************)
(* The codec alone: generateFrontmatter followed by parseFrontmatter, on   *)
(* every metadata object of up to two keys and a set of body texts.        *)
(***************************************************************************)
CodecKeys == {<<"k">>, <<"t", "o">>}
CodecValues == {<<"v">>, <<>>, <<"a", ":", "b">>, <<"-", "-", "-">>}
CodecBodies == {<<>>, BodyB, BodyRule, <<"x", "\n", "-", "-", "-", "\n", "y">>}

\* objects with distinct keys, in either order of insertion
CodecMaps ==
  {<<>>}
    \cup {<<Entry(k, v)>> : k \in CodecKeys, v \in CodecValues}
    \cup {m \in {<<Entry(k1, v1), Entry(k2, v2)>> :
            k1 \in CodecKeys, k2 \in CodecKeys, v1 \in CodecValues, v2 \in CodecValues} :
             m[1].k # m[2].k}

InitCodec ==
  /\ vault = EmptyVault
  /\ now = 0
  /\ ops = [p \in Procs |-> IdleOp]
  /\ calls = 0
  /\ created = 0
  /\ faults = 0
  /\ \E m \in CodecMaps, b \in CodecBodies :
       codec = [meta |-> m, body |-> b, done |-> FALSE,
                out |-> [metadata |-> <<>>, content |-> <<>>]]
  /\ cli = CliIdle

RoundTrip ==
  /\ ~codec.done
  /\ codec' = [codec EXCEPT !.done = TRUE,
                 !.out = parseFrontmatter(generateFrontmatter(codec.meta) \o codec.body)]
  /\ UNCHANGED <<vault, now, ops, calls, created, faults, cli>>

NextCodec == RoundTrip

SpecCodec == InitCodec /\ [][NextCodec]_vars

(***************************************************************************)
(* The tool handlers called one at a time on a vault they fill themselves; *)
(* the client call of a handler may throw.                                 *)
(***************************************************************************)
ToolPaths == {NoteName, OutsidePath}
ToolContents == {RawNote, PlanText}

\* the arguments a handler takes; the others are called without any
ToolInputs(tool) ==
  IF tool \in {"putFile", "patchFile"} THEN {<<path, content>> : path \in ToolPaths, content \in ToolContents}
  ELSE IF tool \in {"getFile", "deleteFile"} THEN {<<path, <<>>>> : path \in ToolPaths}
  ELSE IF tool = "executeCommand" THEN {<<CommandId, <<>>>>}
  ELSE IF tool \in {"replaceActive", "patchActive", "appendActive"} THEN {<<<<>>, content>> : content \in ToolContents}
  ELSE {<<<<>>, <<>>>>}

NextTools ==
  \/ \E tool \in Tools : \E in \in ToolInputs(tool) : toolHandler(1, tool, in[1], in[2])
  \/ ToolApi(1)

SpecTools == Init /\ [][NextTools]_vars

(***************************************************************************)
(* parseCliArgs alone, on every combination of an absent, empty and        *)
(* non-empty URL and key on the command line and in the environment, with  *)
(* and without the help flag, options spelled long or short.               *)
(***************************************************************************)
CliUrls == {NoValue, StringValue(""), StringValue("http://cli.local:6666")}
CliKeys == {NoValue, StringValue(""), StringValue("cli-key")}
EnvUrls == {NoValue, StringValue(""), StringValue("http://env.local:5555")}
EnvKeys == {NoValue, StringValue(""), StringValue("env-key")}

\* the command line that passes what is given
argsOf(given) ==
  (IF given.url.d THEN <<IF given.short THEN "-u" ELSE "--api-url", given.url.v>> ELSE <<>>)
    \o (IF given.key.d THEN <<IF given.short THEN "-k" ELSE "--api-key", given.key.v>> ELSE <<>>)
    \o (IF given.help THEN <<IF given.short THEN "-h" ELSE "--help">> ELSE <<>>)

InitCli ==
  /\ vault = EmptyVault
  /\ now = 0
  /\ ops = [p \in Procs |-> IdleOp]
  /\ calls = 0
  /\ created = 0
  /\ faults = 0
  /\ codec = [meta |-> <<>>, body |-> <<>>, done |-> FALSE,
              out |-> [metadata |-> <<>>, content |-> <<>>]]
  /\ \E url \in CliUrls, key \in CliKeys, help \in BOOLEAN, short \in BOOLEAN,
        envUrl \in EnvUrls, envKey \in EnvKeys :
       LET given == [url |-> url, key |-> key, help |-> help, short |-> short]
       IN  cli = [CliIdle EXCEPT !.given = given, !.args = argsOf(given),
                                 !.env = [url |-> envUrl, key |-> envKey]]

ParseCli ==
  /\ ~cli.done
  /\ cli' = [cli EXCEPT !.done = TRUE, !.config = parseCliArgs(cli.args, cli.env)]
  /\ UNCHANGED <<vault, now, ops, calls, created, faults, codec>>

NextCli == ParseCli

SpecCli == InitCli /\ [][NextCli]_vars

(***************************************************************************)
(* Two calls of createTechnicalPlan, one after the other, on the same or   *)
(* on different days: the record of the first call is kept (call 1) while  *)
(* the second is made (call 2).                                            *)
(***************************************************************************)
ProjectUnderscore == <<"q", "_", "r">>
PairProjects == {ProjectP, ProjectQ, ProjectUnderscore}
PairTypes == {DefaultType, Research}

NextPair ==
  \/ Tick
  \/ /\ ops[1].pc = "idle"
     /\ \E project \in PairProjects, type \in PairTypes :
          createTechnicalPlan(1, BodyB, MetaOf(Value(project), Value(type), Absent, Absent))
  \/ CreatePut(1, TRUE)
  \/ /\ Done(1) /\ ops[2].pc = "idle"
     /\ \E project \in PairProjects, type \in PairTypes :
          createTechnicalPlan(2, BodyRule, MetaOf(Value(project), Value(type), Absent, Absent))
  \/ CreatePut(2, TRUE)

SpecPair == Init /\ [][NextPair]_vars

(***************************************************************************)
(* parseFrontmatter on texts of up to MaxLines lines: delimiter lines,     *)
(* lines that only look like one, metadata lines and other lines, ending   *)
(* with or without a line terminator.                                      *)
(***************************************************************************)
ParseLineSet ==
  { <<"-", "-", "-">>, <<"-", "-", "-", " ">>, <<"k", ":", " ", "v">>,
    <<"u", ":", " ", "a", ":", "b", " ">>, <<"x">>, <<>> }

ParseTexts ==
  {Join(ls, <<"\n">>) : ls \in UNION {[1..n -> ParseLineSet] : n \in 1..MaxLines}}

InitParse ==
  /\ vault = EmptyVault
  /\ now = 0
  /\ ops = [p \in Procs |-> IdleOp]
  /\ calls = 0
  /\ created = 0
  /\ faults = 0
  /\ \E text \in ParseTexts :
       codec = [meta |-> <<>>, body |-> text, done |-> FALSE,
                out |-> [metadata |-> <<>>, content |-> <<>>]]
  /\ cli = CliIdle

ParseText ==
  /\ ~codec.done
  /\ codec' = [codec EXCEPT !.done = TRUE, !.out = parseFrontmatter(codec.body)]
  /\ UNCHANGED <<vault, now, ops, calls, created, faults, cli>>

NextParse == ParseText

SpecParse == InitParse /\ [][NextParse]_vars

(***************************************************************************)
(* The server's start: initializeStructure is called once (call 2), its    *)
(* rejection caught and reported by main; the tools call the manager       *)
(* (call 1) before and after it, on a gateway that fails only during the   *)
(* initialisation.                                                         *)
(***************************************************************************)
NextStartup ==
  \/ Idle(1) /\ ops[2].pc = "idle" /\ initializeStructure(2)
  \/ InitList(2, TRUE)
  \/ InitPut(2, TRUE)
  \/ Idle(2) /\ createTechnicalPlan(1, BodyB, MetaHandler)
  \/ CreatePut(1, FALSE)
  \/ Idle(2) /\ \E f \in Filenames : markReviewed(1, f)
  \/ MarkReviewedGet(1, FALSE)
  \/ MarkReviewedPut(1, FALSE)
  \/ MarkReviewedDelete(1, FALSE)
  \/ Idle(2) /\ \E f \in Filenames : archivePlan(1, f)
  \/ ArchiveGet(1, FALSE)
  \/ ArchivePut(1, FALSE)
  \/ ArchiveDelete(1, FALSE)
  \/ Idle(2) /\ \E d \in 0..Len(folders) : listTechnicalPlans(1, d)
  \/ ListDir(1, FALSE)
  \/ ListRead(1, FALSE)

SpecStartup == Init /\ [][NextStartup]_vars

(***************************************************************************)
(* The manager methods under the assumption that every gateway call        *)
(* returns: a call of the gateway that is awaited is eventually answered,  *)
(* with success or with failure.                                           *)
(***************************************************************************)
GatewayReturns ==
  \/ MarkReviewedGet(1, TRUE)
  \/ MarkReviewedPut(1, TRUE)
  \/ MarkReviewedDelete(1, TRUE)
  \/ ArchiveGet(1, TRUE)
  \/ ArchivePut(1, TRUE)
  \/ ArchiveDelete(1, TRUE)
  \/ ListDir(1, TRUE)
  \/ ListRead(1, TRUE)
  \/ PlanMetadataGet(1, TRUE)

\* a plan created on the first day, and the copy markReviewed made of it
\* that day
TermName == generateFilename(FormatDate(1), ProjectP, DefaultType)
TermPlan == generateFrontmatter(fullMetadata(FormatDate(1), MetaHandler)) \o BodyB
TermReviewed == reviewedContent(TermPlan, FormatDate(1))

\* the vaults the methods are called on: the plan in Inbox, in Reviewed, in
\* both or in neither
TermVaults ==
  LET inbox == createOrUpdateFile(EmptyVault, PathOf(FolderInbox, TermName), TermPlan, FALSE).vault
      reviewed(v) == createOrUpdateFile(v, PathOf(FolderReviewed, TermName), TermReviewed, FALSE).vault
  IN  {EmptyVault, inbox, reviewed(EmptyVault), reviewed(inbox)}

\* the methods are called on the last day
InitTerm ==
  /\ vault \in TermVaults
  /\ now = TicksPerDay * (MaxDay - 1)
  /\ ops = [p \in Procs |-> IdleOp]
  /\ calls = 0
  /\ created = 0
  /\ faults = 0
  /\ codec = [meta |-> <<>>, body |-> <<>>, done |-> FALSE,
              out |-> [metadata |-> <<>>, content |-> <<>>]]
  /\ cli = CliIdle

NextTerm ==
  \/ \E f \in Filenames : markReviewed(1, f)
  \/ \E f \in Filenames : archivePlan(1, f)
  \/ \E n \in 1..MaxDaysOld : archiveOldReviewed(1, n)
  \/ \E d \in 0..Len(folders) : listTechnicalPlans(1, d)
  \/ \E f \in Filenames : getPlanMetadata(1, f)
  \/ GatewayReturns

\* a call of a method is awaiting the gateway
InFlight == \E p \in Procs : ops[p].pc \notin {"idle", "done"}

\* weak fairness of GatewayReturns, WF_vars(GatewayReturns), with its
\* enabling condition written out: GatewayReturns is enabled exactly while a
\* call is in flight (a method awaits nothing but the gateway, and every
\* answer of the gateway adds to the log of the call)
GatewayFair == []<>(~InFlight) \/ []<><<GatewayReturns>>_vars

SpecTerm == InitTerm /\ [][NextTerm]_vars /\ GatewayFair

(***************************************************************************)
(* Two callers at once: the methods are asynchronous and the server does   *)
(* not serialise the tool calls, so the gateway calls of a method of one   *)
(* caller (call 1: createTechnicalPlan, archivePlan) interleave with those *)
(* of a method of the other (call 2: markReviewed, initializeStructure).   *)
(* The gateway fails only with not-found on absent paths.                  *)
(***************************************************************************)
NextRace ==
  \/ \E body \in {BodyB, BodyRule} : createTechnicalPlan(1, body, MetaHandler)
  \/ CreatePut(1, FALSE)
  \/ \E f \in Filenames : archivePlan(1, f)
  \/ ArchiveGet(1, FALSE)
  \/ ArchivePut(1, FALSE)
  \/ ArchiveDelete(1, FALSE)
  \/ \E f \in Filenames : markReviewed(2, f)
  \/ MarkReviewedGet(2, FALSE)
  \/ MarkReviewedPut(2, FALSE)
  \/ MarkReviewedDelete(2, FALSE)
  \/ initializeStructure(2)
  \/ InitList(2, FALSE)
  \/ InitPut(2, FALSE)

SpecRace == Init /\ [][NextRace]_vars

(***************************************************************************)
(* archiveOldReviewed on the last day, on a vault whose Reviewed folder    *)
(* holds three plans: all three reviewed on the first day, or the third    *)
(* reviewed on the last.                                                   *)
(***************************************************************************)
SweepPlan(project, type, day) ==
  [path |-> PathOf(FolderReviewed, generateFilename(FormatDate(1), project, type)),
   text |-> reviewedContent(
              generateFrontmatter(fullMetadata(FormatDate(1),
                                    MetaOf(Value(project), Value(type), Absent, Absent))) \o BodyB,
              FormatDate(day))]

SweepVaults ==
  { [q \in {plans[i].path : i \in 1..3} |->
       plans[CHOOSE i \in 1..3 : plans[i].path = q].text] :
    plans \in { <<SweepPlan(ProjectP, DefaultType, 1), SweepPlan(ProjectQ, DefaultType, 1),
                  SweepPlan(ProjectP, Research, day)>> : day \in {1, MaxDay} } }

InitSweep ==
  /\ vault \in SweepVaults
  /\ now = TicksPerDay * (MaxDay - 1)
  /\ ops = [p \in Procs |-> IdleOp]
  /\ calls = 0
  /\ created = 0
  /\ faults = 0
  /\ codec = [meta |-> <<>>, body |-> <<>>, done |-> FALSE,
              out |-> [metadata |-> <<>>, content |-> <<>>]]
  /\ cli = CliIdle

NextSweep ==
  \/ \E n \in 1..MaxDaysOld : archiveOldReviewed(1, n)
  \/ ListDir(1, TRUE)
  \/ ListRead(1, TRUE)
  \/ ArchiveGet(1, TRUE)
  \/ ArchivePut(1, TRUE)
  \/ ArchiveDelete(1, TRUE)

SpecSweep == InitSweep /\ [][NextSweep]_vars

(***************************************************************************)
(* Properties.                                                             *)
(***************************************************************************)
\* call p has returned normally from the method
Succeeded(p, name) ==
  ops[p].name = name /\ ops[p].pc = "done" /\ ops[p].result = "ok"

InboxPath(f) == PathOf(FolderInbox, f)
ReviewedPath(f) == PathOf(FolderReviewed, f)
ArchivePath(f) == PathOf(FolderArchive, f)

\* C1: after markReviewed(f) returns success for a file f of Inbox, Inbox/f
\* is gone, Reviewed/f exists, and the frontmatter of Reviewed/f has
\* review_date equal to the date of the call.
C1_MarkReviewedMoves ==
  \A p \in Procs :
    Succeeded(p, "markReviewed") =>
      LET f == ops[p].filename
      IN  /\ Exists(ops[p].pre, InboxPath(f))
          /\ ~Exists(vault, InboxPath(f))
          /\ Exists(vault, ReviewedPath(f))
          /\ Get(parseFrontmatter(vault[ReviewedPath(f)]).metadata, KeyReviewDate)
               = Entry(KeyReviewDate, FormatDate(DayOf(ops[p].at)))

\* a plan created on an earlier day has been marked reviewed
C1_Witness ==
  \E p \in Procs :
    /\ Succeeded(p, "markReviewed")
    /\ Exists(vault, ReviewedPath(ops[p].filename))
    /\ Get(parseFrontmatter(vault[ReviewedPath(ops[p].filename)]).metadata, KeyCreated).v
         # FormatDate(DayOf(ops[p].at))

\* C2: a successful archivePlan(f) leaves Archive/f byte-identical to the
\* copy it found in Inbox or Reviewed, and that copy is gone from its folder.
C2_ArchiveVerbatim ==
  \A p \in Procs :
    Succeeded(p, "archivePlan") =>
      LET f == ops[p].filename
          src == ops[p].sourcePath
      IN  /\ src \in {InboxPath(f), ReviewedPath(f)}
          /\ Exists(ops[p].pre, src)
          /\ Exists(vault, ArchivePath(f))
          /\ vault[ArchivePath(f)] = ops[p].pre[src]
          /\ ~Exists(vault, src)

\* a reviewed plan, which carries a review_date, has been archived
C2_Witness ==
  \E p \in Procs :
    /\ Succeeded(p, "archivePlan")
    /\ ops[p].sourcePath = ReviewedPath(ops[p].filename)
    /\ HasKey(parseFrontmatter(vault[ArchivePath(ops[p].filename)]).metadata, KeyReviewDate)

\* C3: when f is in neither Inbox nor Reviewed, archivePlan(f) issues only
\* reads, changes no path and no content, and ends with the not-found error.
C3_ArchiveMissing ==
  \A p \in Procs :
    (/\ ops[p].name = "archivePlan"
     /\ ~Exists(ops[p].pre, InboxPath(ops[p].filename))
     /\ ~Exists(ops[p].pre, ReviewedPath(ops[p].filename)))
    => /\ \A k \in 1..Len(ops[p].log) : ops[p].log[k].call = "getFile"
       /\ vault = ops[p].pre
       /\ Done(p) => ops[p].result = "error" /\ ops[p].err = NotFoundError

\* archivePlan has ended on a file that exists in Archive only
C3_Witness ==
  \E p \in Procs :
    /\ ops[p].name = "archivePlan" /\ Done(p)
    /\ ~Exists(ops[p].pre, InboxPath(ops[p].filename))
    /\ ~Exists(ops[p].pre, ReviewedPath(ops[p].filename))
    /\ Exists(ops[p].pre, ArchivePath(ops[p].filename))

\* the folder a move writes to, and what it writes there for a source text
DestPath(op) ==
  IF op.name = "markReviewed" THEN ReviewedPath(op.filename) ELSE ArchivePath(op.filename)

Moved(op, text) ==
  IF op.name = "markReviewed"
  THEN LET meta == parseFrontmatter(text).metadata
       IN  \E d \in 1..MaxDay :
             /\ Get(parseFrontmatter(vault[DestPath(op)]).metadata, KeyReviewDate).v = FormatDate(d)
             /\ \A i \in 1..Len(meta) :
                  meta[i].k # KeyReviewDate =>
                    Get(parseFrontmatter(vault[DestPath(op)]).metadata, meta[i].k) = meta[i]
             /\ parseFrontmatter(vault[DestPath(op)]).content = parseFrontmatter(text).content
  ELSE vault[DestPath(op)] = text

\* C6: in markReviewed and archivePlan a deleteFile on a source path comes
\* directly after a successful read of that path and a successful
\* createOrUpdateFile on the destination; so whatever gateway call fails, each
\* copy the call found in a source folder is still there unchanged or has
\* been written to the destination (a failed delete leaves both).
C6_CopyBeforeDelete ==
  \A p \in Procs :
    ops[p].name \in {"markReviewed", "archivePlan"} =>
      LET op == ops[p]
          sources == IF op.name = "markReviewed" THEN {InboxPath(op.filename)}
                     ELSE {InboxPath(op.filename), ReviewedPath(op.filename)}
      IN  /\ \A k \in 1..Len(op.log) :
               op.log[k].call = "deleteFile" =>
                 /\ k >= 3
                 /\ op.log[k].path \in sources
                 /\ op.log[k - 1] = LogEntry("createOrUpdateFile", DestPath(op), TRUE)
                 /\ op.log[k - 2] = LogEntry("getFile", op.log[k].path, TRUE)
          /\ \A src \in sources :
               Exists(op.pre, src) =>
                 \/ Exists(vault, src) /\ vault[src] = op.pre[src]
                 \/ Exists(vault, DestPath(op)) /\ Moved(op, op.pre[src])

\* a move has ended with its delete failing: the plan is in both folders
C6_Witness ==
  \E p \in Procs :
    /\ ops[p].name \in {"markReviewed", "archivePlan"} /\ Done(p)
    /\ ops[p].result = "error"
    /\ Len(ops[p].log) >= 3
    /\ ops[p].log[Len(ops[p].log)] = LogEntry("deleteFile", ops[p].sourcePath, FALSE)
    /\ Exists(vault, ops[p].sourcePath)
    /\ Exists(vault, DestPath(ops[p]))

\* the value a caller's metadata gives a field, the default when it gives none
Supplied(arg, k, dflt) == IF Get(arg, k).d THEN Get(arg, k).v ELSE dflt

\* every character that is no letter and no digit becomes "_"
Underscored(s) == [i \in 1..Len(s) |-> IF s[i] \in AlnumChars THEN s[i] ELSE "_"]

\* C7: createTechnicalPlan issues exactly one gateway call, a write to
\* Technical Plans/Inbox/{today}_{sanitize(project)}_{sanitize(type)}.md,
\* whose filename holds no path separator; it returns exactly that path and
\* leaves every other path as it was.
C7_CreateTarget ==
  \A p \in Procs :
    (ops[p].name = "createTechnicalPlan" /\ Done(p)) =>
      LET op == ops[p]
          filename == FormatDate(DayOf(op.at)) \o <<"_">>
                        \o Underscored(Supplied(op.arg, KeyProject, DefaultProject)) \o <<"_">>
                        \o Underscored(Supplied(op.arg, KeyType, DefaultType)) \o ExtMd
          path == FolderInbox \o <<"/">> \o filename
      IN  /\ \A i \in 1..Len(filename) : filename[i] # "/"
          /\ op.log = <<LogEntry("createOrUpdateFile", path, op.result = "ok")>>
          /\ op.result = "ok" => op.ret = path /\ Exists(vault, path)
          /\ DOMAIN vault \ {path} = DOMAIN op.pre \ {path}
          /\ \A q \in DOMAIN vault \ {path} : vault[q] = op.pre[q]

\* a plan was created for a project whose name holds a slash, a space and a dot
C7_Witness ==
  \E p \in Procs :
    /\ Succeeded(p, "createTechnicalPlan")
    /\ Get(ops[p].arg, KeyProject).v = ProjectPunct
    /\ Exists(vault, ops[p].ret)

\* C8: the frontmatter createTechnicalPlan writes holds created, source,
\* type, project and priority, each with the caller's value when there is one
\* and else the default, also when the caller passes the field as undefined.
C8_DefaultsFilled ==
  \A p \in Procs :
    Succeeded(p, "createTechnicalPlan") =>
      LET written == parseFrontmatter(vault[ops[p].ret]).metadata
          arg == ops[p].arg
          Holds(k, dflt) == HasKey(written, k) /\ Get(written, k).v = Supplied(arg, k, dflt)
      IN  /\ Holds(KeyCreated, FormatDate(DayOf(ops[p].at)))
          /\ Holds(KeySource, DefaultSource)
          /\ Holds(KeyType, DefaultType)
          /\ Holds(KeyProject, DefaultProject)
          /\ Holds(KeyPriority, DefaultPriority)

\* C9: for every metadata map M of flat strings, the empty map included,
\* and every body B, parseFrontmatter(generateFrontmatter(M) + B) gives back
\* metadata M and body B.
C9_RoundTrip ==
  codec.done => codec.out.metadata = codec.meta /\ codec.out.content = codec.body

\* the folders (1 Inbox, 2 Reviewed, 3 Archive) that hold a file named f
FoldersOf(v, f) == {d \in 1..Len(folders) : Exists(v, PathOf(folders[d], f))}

\* C4: from an empty vault, after any sequence of calls of
\* createTechnicalPlan, markReviewed, archivePlan and archiveOldReviewed, one
\* at a time and with no failing gateway call, every plan filename is in at
\* most one of Inbox, Reviewed and Archive.
C4_OneFolder ==
  AllIdle => \A f \in Filenames : Cardinality(FoldersOf(vault, f)) <= 1

\* the position (1 Inbox, 2 Reviewed, 3 Archive) of the folder of a path, 0
\* for a path outside the managed folders
Rank(path) ==
  LET in == {d \in 1..Len(folders) : StartsWith(path, folders[d] \o <<"/">>)}
  IN  IF in = {} THEN 0 ELSE SetMin(in)

\* what the calls of the named methods have done so far only moves forward:
\* they wrote a copy only into a folder later than the one they read it from,
\* and deleted nothing from Archive
ForwardOnly(names) ==
  \A p \in Procs :
    ops[p].name \in names =>
      \A k \in 1..Len(ops[p].log) :
        LET e == ops[p].log[k]
        IN  /\ (e.call = "deleteFile" /\ e.ok) => Rank(e.path) < Len(folders)
            /\ (e.call = "createOrUpdateFile" /\ e.ok /\ ops[p].name # "createTechnicalPlan") =>
                 /\ k > 1
                 /\ ops[p].log[k - 1].call = "getFile" /\ ops[p].log[k - 1].ok
                 /\ Rank(e.path) > Rank(ops[p].log[k - 1].path)

\* a step of a call of one of the named methods removes no file from Archive
KeepsArchive(names) ==
  (\E p \in Procs : ops'[p] # ops[p] /\ ops'[p].name \in names) =>
    \A q \in DOMAIN vault : Rank(q) = Len(folders) => q \in DOMAIN vault'

LifecycleMethods ==
  {"createTechnicalPlan", "markReviewed", "archivePlan", "archiveOldReviewed"}

\* C5 as stated: across createTechnicalPlan, movePlan, markReviewed,
\* archivePlan and archiveOldReviewed a plan only advances Inbox to Reviewed,
\* Reviewed to Archive or Inbox to Archive; nothing is removed from Archive
\* and nothing moves back to an earlier folder.
C5_ForwardOnlyAll ==
  /\ [](ForwardOnly(LifecycleMethods \cup {"movePlan"}))
  /\ [][KeepsArchive(LifecycleMethods \cup {"movePlan"})]_vars

\* C5 amended: the same for createTechnicalPlan, markReviewed, archivePlan
\* and archiveOldReviewed, that is for every public operation but movePlan.
C5_ForwardOnlyLifecycle ==
  /\ [](ForwardOnly(LifecycleMethods))
  /\ [][KeepsArchive(LifecycleMethods)]_vars

\* a call other than movePlan has succeeded on a name that Archive held
\* before the call and holds after it
C5_Witness ==
  \E p \in Procs :
    /\ ops[p].name \in LifecycleMethods /\ Done(p) /\ ops[p].result = "ok"
    /\ ops[p].filename # <<>>
    /\ Exists(ops[p].pre, ArchivePath(ops[p].filename))
    /\ Exists(vault, ArchivePath(ops[p].filename))
    /\ vault # ops[p].pre

\* plan q, in Reviewed when the call started, is in Archive after it and no
\* longer in Reviewed
Archived(op, q) ==
  /\ ~Exists(vault, q)
  /\ Exists(vault, ArchivePath(LastSegment(q)))
  /\ vault[ArchivePath(LastSegment(q))] = op.pre[q]

\* plan q is still where it was, as it was
Kept(op, q) == Exists(vault, q) /\ vault[q] = op.pre[q]

\* C10: for every N >= 1, archiveOldReviewed(N), when no gateway call has
\* failed, archives a Reviewed plan whose review_date is today minus (N+1)
\* days, does not archive one whose review_date is today minus (N-1) days, and
\* never archives a Reviewed plan with no review_date or an unparseable one.
C10_ArchivesByAge ==
  \A p \in Procs :
    (ops[p].name = "archiveOldReviewed" /\ Done(p) /\ ops[p].result = "ok" /\ faults = 0) =>
      \A q \in DOMAIN ops[p].pre :
        (Rank(q) = 2 /\ EndsWith(q, ExtMd)) =>
          LET rd == Get(parseFrontmatter(ops[p].pre[q]).metadata, KeyReviewDate)
              today == DayOf(ops[p].at)
              N == ops[p].daysOld
          IN  /\ (today - (N + 1) >= 1 /\ rd.d /\ rd.v = FormatDate(today - (N + 1)))
                   => Archived(ops[p], q)
              /\ (rd.d /\ rd.v = FormatDate(today - (N - 1))) => Kept(ops[p], q)
              /\ (~rd.d \/ ~ParseDate(rd.v).valid) => Kept(ops[p], q)

\* the calendar day of a parseable review_date
ReviewDay(rd) == DayOf(ParseDate(rd.v).t)

\* C11: archiveOldReviewed(daysOld), when no gateway call has failed, archives
\* exactly the Reviewed plans whose review_date is a day strictly before today
\* minus daysOld; one reviewed on the day today minus daysOld is kept,
\* whatever the time of day of the call.
C11_DayGranularity ==
  \A p \in Procs :
    (ops[p].name = "archiveOldReviewed" /\ Done(p) /\ ops[p].result = "ok" /\ faults = 0) =>
      \A q \in DOMAIN ops[p].pre :
        (Rank(q) = 2 /\ EndsWith(q, ExtMd)) =>
          LET rd == Get(parseFrontmatter(ops[p].pre[q]).metadata, KeyReviewDate)
              today == DayOf(ops[p].at)
          IN  (rd.d /\ ParseDate(rd.v).valid) =>
                IF ReviewDay(rd) < today - ops[p].daysOld
                THEN Archived(ops[p], q)
                ELSE Kept(ops[p], q)

\* C12: the number archiveOldReviewed returns is the number of files that
\* were in Reviewed before the call and are in Archive and no longer in
\* Reviewed after it.
C12_CountIsMoved ==
  \A p \in Procs :
    (ops[p].name = "archiveOldReviewed" /\ Done(p) /\ ops[p].result = "ok") =>
      ops[p].count =
        Cardinality({q \in DOMAIN ops[p].pre :
                       /\ Rank(q) = 2
                       /\ ~Exists(vault, q)
                       /\ Exists(vault, ArchivePath(LastSegment(q)))})

\* the gateway calls of a call that wrote or deleted, successfully or not
Mutations(op) ==
  {k \in 1..Len(op.log) : op.log[k].call \in {"createOrUpdateFile", "deleteFile"}}

\* C18: markReviewed(f) reads Inbox/f only: when f is not in Inbox the call
\* fails, also when f is in Reviewed or Archive, having issued no
\* createOrUpdateFile and no deleteFile, and the vault is as it was.
C18_InboxOnly ==
  \A p \in Procs :
    (ops[p].name = "markReviewed" /\ Done(p)
       /\ ~Exists(ops[p].pre, InboxPath(ops[p].filename))) =>
      /\ ops[p].result = "error"
      /\ ops[p].log = <<LogEntry("getFile", InboxPath(ops[p].filename), FALSE)>>
      /\ Mutations(ops[p]) = {}
      /\ vault = ops[p].pre

\* markReviewed has failed on a plan that an earlier markReviewed moved to
\* Reviewed
C18_Witness ==
  \E p \in Procs :
    /\ ops[p].name = "markReviewed" /\ Done(p) /\ ops[p].result = "error"
    /\ ~Exists(ops[p].pre, InboxPath(ops[p].filename))
    /\ Exists(vault, ReviewedPath(ops[p].filename))
    /\ HasKey(parseFrontmatter(vault[ReviewedPath(ops[p].filename)]).metadata, KeyReviewDate)

\* f is in one of the folders archivePlan takes it from
InSource(v, f) == Exists(v, InboxPath(f)) \/ Exists(v, ReviewedPath(f))

\* C19: archivePlan(f) fails only if f is in neither Inbox nor Reviewed: when
\* f is there and the write to Archive or the delete of the source fails, the
\* caller gets that failure, not 'not found', and no folder is tried after a
\* write has been made.
C19_FailureSurfaced ==
  \A p \in Procs :
    (ops[p].name = "archivePlan" /\ Done(p)) =>
      /\ (\E k \in Mutations(ops[p]) : ~ops[p].log[k].ok) =>
           /\ ops[p].result = "error"
           /\ ops[p].err # NotFoundError
      /\ \A k \in 1..Len(ops[p].log) :
           (ops[p].log[k].call = "createOrUpdateFile" /\ ops[p].log[k].ok) =>
             \A j \in (k + 1)..Len(ops[p].log) : ops[p].log[j].call # "getFile"

\* the error a method raises when the file is not where it looks for it
AbsentThrown(name) ==
  IF name = "markReviewed" THEN <<MarkReviewedError, GatewayNotFound>>
  ELSE <<NotFoundError, "">>

\* f is where the method looks for it
InExpectedSource(op) ==
  IF op.name = "markReviewed" THEN Exists(op.pre, InboxPath(op.filename))
  ELSE InSource(op.pre, op.filename)

\* C20: what markReviewed and archivePlan raise when a gateway read, write or
\* delete fails on a plan that is in its source folder differs from what they
\* raise when the plan is not there, so that a caller can tell the two apart.
C20_DistinctErrors ==
  \A p \in Procs :
    (ops[p].name \in {"markReviewed", "archivePlan"} /\ Done(p)
       /\ ops[p].result = "error" /\ InExpectedSource(ops[p])) =>
      Thrown(ops[p]) # AbsentThrown(ops[p].name)

\* the folders a call of listTechnicalPlans was asked for
Requested(op) == IF op.target = 0 THEN 1..Len(folders) ELSE {op.target}

\* the .md files stored directly in folder number d
PlansIn(v, d) ==
  {q \in DOMAIN v : /\ StartsWith(q, folders[d] \o <<"/">>)
                    /\ IndexOf(SubSeq(q, Len(folders[d]) + 2, Len(q)), "/") = 0
                    /\ EndsWith(q, ExtMd)}

RequestedPlans(op) == UNION {PlansIn(op.pre, d) : d \in Requested(op)}

\* the paths of the entries a call returned, and no path returned twice
Listed(op) == {op.plans[i].path : i \in 1..Len(op.plans)}
ListedOnce(op) ==
  \A i, j \in 1..Len(op.plans) : op.plans[i].path = op.plans[j].path => i = j

\* the reads of single entries that failed, and the number of folder
\* listings that failed or could not be decoded
EntryFaults(op) ==
  {k \in 1..Len(op.log) : ~op.log[k].ok /\ EndsWith(op.log[k].path, ExtMd)}
ListingFaults(op) == op.fails - Cardinality(EntryFaults(op))

IsListing(p) == ops[p].name = "listTechnicalPlans" /\ Done(p)

C14_EntryKept ==
  \A p \in Procs :
    (IsListing(p) /\ ListingFaults(ops[p]) = 0) =>
      /\ ListedOnce(ops[p])
      /\ Listed(ops[p]) = RequestedPlans(ops[p])
      /\ \A i \in 1..Len(ops[p].plans) :
           LET e == ops[p].plans[i]
           IN  IF \E k \in EntryFaults(ops[p]) : ops[p].log[k].path = e.path
               THEN ~e.hasMeta
               ELSE e.hasMeta /\ e.metadata = parseFrontmatter(ops[p].pre[e.path]).metadata

\* the first entry could not be read and the one after it, a file without
\* frontmatter, is returned with empty metadata
C14_Witness ==
  \E p \in Procs :
    /\ IsListing(p) /\ Len(ops[p].plans) >= 2
    /\ ~ops[p].plans[1].hasMeta
    /\ ops[p].plans[2].hasMeta /\ ops[p].plans[2].metadata = <<>>
    /\ ~StartsWith(ops[p].pre[ops[p].plans[2].path], DelimOpen)

\* the requested folders that hold plans and contributed none
Skipped(op) ==
  {d \in Requested(op) : PlansIn(op.pre, d) # {} /\ \A q \in Listed(op) : Rank(q) # d}

\* C15: listTechnicalPlans never raises: a folder whose listing cannot be
\* read or decoded contributes nothing, and every other requested folder
\* contributes all of its plans.
C15_NeverRaises ==
  \A p \in Procs :
    IsListing(p) =>
      /\ ops[p].result = "ok"
      /\ \A d \in Requested(ops[p]) :
           {q \in Listed(ops[p]) : Rank(q) = d} \in {{}, PlansIn(ops[p].pre, d)}
      /\ Cardinality(Skipped(ops[p])) <= ListingFaults(ops[p])

\* a listing of all folders has lost one folder to a failed listing and
\* returned the plans of another
C15_Witness ==
  \E p \in Procs :
    /\ IsListing(p) /\ ops[p].target = 0 /\ ops[p].result = "ok"
    /\ ListingFaults(ops[p]) = 1
    /\ Skipped(ops[p]) # {}
    /\ Listed(ops[p]) # {}

IsMetadata(p) == ops[p].name = "getPlanMetadata" /\ Done(p)

\* C16: getPlanMetadata(f) reads Inbox/f, then Reviewed/f, then Archive/f,
\* stops at the first read that succeeds and returns the metadata decoded
\* from it, so that the Inbox copy wins over the others; it returns null
\* exactly when none of the three reads succeeds, and it never raises.
C16_FirstReadable ==
  \A p \in Procs :
    IsMetadata(p) =>
      LET op == ops[p]
          n == Len(op.log)
      IN  /\ op.result = "ok"
          /\ n \in 1..Len(folders)
          /\ \A k \in 1..n :
               /\ op.log[k].call = "getFile"
               /\ op.log[k].path = PathOf(folders[k], op.filename)
               /\ k < n => ~op.log[k].ok
          /\ op.isNull <=> (n = Len(folders) /\ ~op.log[n].ok)
          /\ ~op.isNull =>
               /\ op.log[n].ok
               /\ op.ret = parseFrontmatter(op.pre[op.log[n].path]).metadata
          /\ op.fails = 0 =>
               /\ op.isNull <=> FoldersOf(op.pre, op.filename) = {}
               /\ ~op.isNull => n = SetMin(FoldersOf(op.pre, op.filename))

\* the metadata of a plan that is both in Inbox and in Reviewed, with
\* different metadata, has been returned from the Inbox copy
C16_Witness ==
  \E p \in Procs :
    /\ IsMetadata(p) /\ ops[p].fails = 0 /\ ~ops[p].isNull
    /\ {1, 2} \subseteq FoldersOf(ops[p].pre, ops[p].filename)
    /\ ops[p].ret = parseFrontmatter(ops[p].pre[InboxPath(ops[p].filename)]).metadata
    /\ ops[p].ret # parseFrontmatter(ops[p].pre[ReviewedPath(ops[p].filename)]).metadata

IsInitialize(p) == ops[p].name = "initializeStructure" /\ Done(p)

\* the managed folders under which the vault has no path, in order
Missing(v) ==
  SelectSeq(folders, LAMBDA f : \A q \in DOMAIN v : ~StartsWith(q, f \o <<"/">>) /\ q # f)

\* the writes a call has issued
Writes(op) == SelectSeq(op.log, LAMBDA e : e.call = "createOrUpdateFile")

\* v with the placeholder of each folder of fs added
WithPlaceholders(v, fs) ==
  LET added == {PathOf(fs[i], Placeholder) : i \in 1..Len(fs)}
  IN  [q \in DOMAIN v \cup added |-> IF q \in added THEN PlaceholderContent ELSE v[q]]

\* C17: a successful initializeStructure has written the placeholder
\* '<folder>/.gitkeep' of exactly the managed folders that had no path in the
\* vault, after which every managed folder holds a file; called again, it
\* issues no write and leaves the vault as it is.
C17_InitializeOnce ==
  \A p \in Procs :
    (IsInitialize(p) /\ ops[p].result = "ok") =>
      LET op == ops[p]
          missing == Missing(op.pre)
      IN  /\ Writes(op) = [i \in 1..Len(missing) |->
                             LogEntry("createOrUpdateFile", PathOf(missing[i], Placeholder), TRUE)]
          /\ vault = WithPlaceholders(op.pre, missing)
          /\ Missing(vault) = <<>>
          /\ missing = <<>> => (Mutations(op) = {} /\ vault = op.pre)

\* a call has found every folder in place and written nothing, in a vault
\* where an earlier call had written the placeholders of Reviewed and Archive
\* and none for Inbox, which held a file
C17_Witness ==
  \E p \in Procs :
    /\ IsInitialize(p) /\ ops[p].result = "ok"
    /\ Mutations(ops[p]) = {}
    /\ Exists(ops[p].pre, PathOf(FolderReviewed, Placeholder))
    /\ Exists(ops[p].pre, PathOf(FolderArchive, Placeholder))
    /\ ~Exists(ops[p].pre, PathOf(FolderInbox, Placeholder))
    /\ vault = ops[p].pre

\* the entries of a metadata object but the one of key k, in their order
WithoutKey(m, k) == SelectSeq(m, LAMBDA e : e.k # k)

CreatedOf(v, q) == Get(parseFrontmatter(v[q]).metadata, KeyCreated)

\* C22: a step of markReviewed, archivePlan or archiveOldReviewed never gives
\* a plan a created value it did not have: every file the step leaves in
\* the vault carries the created value of a copy of the same filename that
\* was there before the step.
C22_CreatedKept ==
  [][(\E p \in Procs : /\ ops'[p] # ops[p]
                       /\ ops'[p].name \in {"markReviewed", "archivePlan", "archiveOldReviewed"})
       => \A q \in DOMAIN vault' :
            \E r \in DOMAIN vault :
              /\ LastSegment(r) = LastSegment(q)
              /\ CreatedOf(vault', q) = CreatedOf(vault, r)]_vars

\* a plan created on the first day was marked reviewed and then archived on
\* later days: the Archive copy carries the day of creation, and a
\* review_date that differs from it
C22_Witness ==
  \E p \in Procs :
    /\ Succeeded(p, "archivePlan")
    /\ ops[p].sourcePath = ReviewedPath(ops[p].filename)
    /\ DayOf(ops[p].at) > 1
    /\ CreatedOf(vault, ArchivePath(ops[p].filename)) = Entry(KeyCreated, FormatDate(1))
    /\ Get(parseFrontmatter(vault[ArchivePath(ops[p].filename)]).metadata, KeyReviewDate).v
         # FormatDate(1)

\* the text decodes to a metadata object that has review_date
ReviewDated(text) == HasKey(parseFrontmatter(text).metadata, KeyReviewDate)

\* every file in Reviewed has a review_date and no file in Inbox has one
ReviewDateRule(v) ==
  \A q \in DOMAIN v :
    /\ Rank(q) = 2 => ReviewDated(v[q])
    /\ Rank(q) = 1 => ~ReviewDated(v[q])

\* C23 as stated: in every state reached through the operations of the
\* manager, every file in Reviewed has a review_date, no plan in Inbox has
\* one, and a plan that archivePlan took from Inbox has none in Archive.
C23_ReviewDateIffReviewed ==
  /\ ReviewDateRule(vault)
  /\ \A p \in Procs :
       (Succeeded(p, "archivePlan") /\ ops[p].sourcePath = InboxPath(ops[p].filename)) =>
         ~ReviewDated(vault[ArchivePath(ops[p].filename)])

\* C23 amended: the same as what createTechnicalPlan (called without a
\* review_date), markReviewed, archivePlan and archiveOldReviewed maintain:
\* a step of one of them keeps the rule for Inbox and Reviewed, and what it
\* writes to Archive is the copy it read from Inbox or Reviewed as it was,
\* with a review_date exactly if that copy had one.
C23_LifecycleKeepsRule ==
  [][\A p \in Procs :
       (/\ ops'[p] # ops[p]
        /\ ops'[p].name \in LifecycleMethods
        /\ ~HasKey(ops'[p].arg, KeyReviewDate)) =>
         /\ ReviewDateRule(vault) => ReviewDateRule(vault')
         /\ \A q \in DOMAIN vault' :
              (Rank(q) = 3 /\ (q \notin DOMAIN vault \/ vault'[q] # vault[q])) =>
                /\ Rank(ops[p].sourcePath) \in {1, 2}
                /\ Exists(vault, ops[p].sourcePath)
                /\ vault'[q] = vault[ops[p].sourcePath]]_vars

\* a plan has been archived straight from Inbox, without review_date, while
\* Reviewed holds an earlier copy of the same name that has one
C23_Witness ==
  \E p \in Procs :
    /\ Succeeded(p, "archivePlan")
    /\ ops[p].sourcePath = InboxPath(ops[p].filename)
    /\ ~ReviewDated(vault[ArchivePath(ops[p].filename)])
    /\ Exists(vault, ReviewedPath(ops[p].filename))
    /\ ReviewDated(vault[ReviewedPath(ops[p].filename)])

\* C24: every call of a tool handler ends by returning a response, never by
\* throwing: when the client call succeeded the response has no isError and
\* one text, and when it threw the response is isError true with the one
\* text 'Failed to <operation>: <message>', the message being that of the
\* thrown Error and 'Unknown error' for any other thrown value.
C24_HandlersNeverReject ==
  \A p \in Procs :
    (ops[p].name \in Tools /\ Done(p)) =>
      LET op == ops[p]
      IN  /\ op.result = "ok"
          /\ Len(op.log) = 1
          /\ Len(op.response.content) = 1
          /\ op.response.content[1].type = "text"
          /\ IF op.log[1].ok
             THEN ~op.response.hasIsError
             ELSE /\ op.response.hasIsError /\ op.response.isError
                  /\ op.response.content[1].text
                       = <<"Failed to ", operationOf(op.name), ": ",
                           IF op.thrown.isError THEN op.thrown.message ELSE "Unknown error">>

\* a handler has answered a thrown value that is no Error
C24_Witness ==
  \E p \in Procs :
    /\ ops[p].name \in Tools /\ Done(p)
    /\ ~ops[p].log[1].ok
    /\ ~ops[p].thrown.isError
    /\ ops[p].response.isError
    /\ ops[p].response.content[1].text[4] = "Unknown error"

\* the first value of a list that is given, undefined when none is
FirstGiven(values) ==
  LET given == SelectSeq(values, LAMBDA x : x.d)
  IN  IF given = <<>> THEN NoValue ELSE Head(given)

\* the first value of a list that is given and not empty
FirstNonEmpty(values) ==
  LET given == SelectSeq(values, LAMBDA x : x.d /\ x.v # "")
  IN  IF given = <<>> THEN NoValue ELSE Head(given)

\* with the help flag: showHelp and the default URL, whatever else is given
HelpWins ==
  cli.given.help =>
    /\ cli.config.showHelp
    /\ cli.config.obsidianApiUrl = StringValue("http://localhost:27123")

CallsOf(op, call) == {k \in 1..Len(op.log) : op.log[k].call = call}

\* C26: within one call of markReviewed or archivePlan no path is read
\* twice, the destination is written at most once and at most one
\* deleteFile is issued, whether or not an earlier gateway call failed.
C26_EachCallOnce ==
  \A p \in Procs :
    ops[p].name \in {"markReviewed", "archivePlan"} =>
      /\ \A i, j \in CallsOf(ops[p], "getFile") :
           ops[p].log[i].path = ops[p].log[j].path => i = j
      /\ Cardinality(CallsOf(ops[p], "createOrUpdateFile")) <= 1
      /\ Cardinality(CallsOf(ops[p], "deleteFile")) <= 1

\* C27: two successful calls of createTechnicalPlan return the same path,
\* the second overwriting the plan of the first, exactly if they are made on
\* the same day with the same project and the same type.
C27_SamePathIffSamePlan ==
  (Succeeded(1, "createTechnicalPlan") /\ Succeeded(2, "createTechnicalPlan")) =>
    LET project(p) == Supplied(ops[p].arg, KeyProject, DefaultProject)
        type(p) == Supplied(ops[p].arg, KeyType, DefaultType)
    IN  /\ ops[1].ret = ops[2].ret
           <=> /\ DayOf(ops[1].at) = DayOf(ops[2].at)
               /\ project(1) = project(2)
               /\ type(1) = type(2)
        /\ ops[1].ret = ops[2].ret => vault[ops[2].ret] = ops[2].out

\* archivePlan(f) was called with f in Inbox and in Reviewed, and has ended
\* without any gateway call failing
ArchivedFromBoth(p) ==
  /\ ops[p].name = "archivePlan" /\ Done(p) /\ ops[p].fails = 0
  /\ Exists(ops[p].pre, InboxPath(ops[p].filename))
  /\ Exists(ops[p].pre, ReviewedPath(ops[p].filename))

\* C28: archivePlan(f), f in Inbox and in Reviewed and no gateway call
\* failing, reads Inbox/f, writes it to Archive/f and deletes Inbox/f, in
\* that order and nothing else: the Archive copy equals the Inbox copy, the
\* Inbox copy is gone, and the Reviewed copy is neither read, written nor
\* deleted.
C28_InboxProbedFirst ==
  \A p \in Procs :
    ArchivedFromBoth(p) =>
      LET f == ops[p].filename IN
      /\ ops[p].result = "ok"
      /\ ops[p].log = << LogEntry("getFile", InboxPath(f), TRUE),
                         LogEntry("createOrUpdateFile", ArchivePath(f), TRUE),
                         LogEntry("deleteFile", InboxPath(f), TRUE) >>
      /\ Exists(vault, ArchivePath(f))
      /\ vault[ArchivePath(f)] = ops[p].pre[InboxPath(f)]
      /\ ~Exists(vault, InboxPath(f))
      /\ Kept(ops[p], ReviewedPath(f))

\* archivePlan(f) has archived the Inbox copy of a plan whose Reviewed copy
\* has another content
C28_Witness ==
  \E p \in Procs :
    /\ ArchivedFromBoth(p)
    /\ ops[p].pre[InboxPath(ops[p].filename)] # ops[p].pre[ReviewedPath(ops[p].filename)]
    /\ vault[ArchivePath(ops[p].filename)] = ops[p].pre[InboxPath(ops[p].filename)]

\* the lines of a text, and those after the first that are exactly "---"
LinesOf(text) == Split(text, "\n")
ClosingLines(text) == {i \in 2..Len(LinesOf(text)) : LinesOf(text)[i] = <<"-", "-", "-">>}

\* the text begins with a "---" line and has a closing "---" line after it
Delimited(text) == LinesOf(text)[1] = <<"-", "-", "-">> /\ ClosingLines(text) # {}

\* the lines between the opening line and the first closing line
MetadataLines(text) == SubSeq(LinesOf(text), 2, SetMin(ClosingLines(text)) - 1)

\* the lines that have a key before their first colon, their key and value
KeyedLines(ls) == {i \in 1..Len(ls) : IndexOf(ls[i], ":") > 1}
KeyOfLine(l) == Trim(SubSeq(l, 1, IndexOf(l, ":") - 1))
ValueOfLine(l) == Trim(SubSeq(l, IndexOf(l, ":") + 1, Len(l)))

\* C29: parseFrontmatter returns on every text: on one that does not begin
\* with a "---" line followed later by a closing "---" line, the empty
\* metadata and the text unchanged; on any other, the metadata holds for each
\* metadata line its key and, trimmed, everything after its first colon (the
\* last line of a key winning) and nothing else.
C29_ParseFrontmatterTotal ==
  codec.done =>
    IF ~Delimited(codec.body)
    THEN codec.out = [metadata |-> <<>>, content |-> codec.body]
    ELSE LET ls == MetadataLines(codec.body)
             metadata == codec.out.metadata
         IN  /\ {metadata[j].k : j \in 1..Len(metadata)} = {KeyOfLine(ls[i]) : i \in KeyedLines(ls)}
             /\ \A i \in KeyedLines(ls) :
                  (\A j \in KeyedLines(ls) : j > i => KeyOfLine(ls[j]) # KeyOfLine(ls[i])) =>
                    Get(metadata, KeyOfLine(ls[i])) = Entry(KeyOfLine(ls[i]), ValueOfLine(ls[i]))

\* the files of a vault but the placeholders
Plans(v) == [q \in {r \in DOMAIN v : LastSegment(r) # Placeholder} |-> v[q]]

With(v, q, text) == [r \in DOMAIN v \cup {q} |-> IF r = q THEN text ELSE v[r]]
Without(v, q) == [r \in DOMAIN v \ {q} |-> v[r]]

\* what a call of createTechnicalPlan, markReviewed, archivePlan or
\* listTechnicalPlans on a plan does, no gateway call failing, as a function
\* of the plans the vault held when it was called: its result and the plans
\* it leaves
ExpectedOutcome(op) ==
  LET P == Plans(op.pre)
      f == op.filename
  IN  CASE op.name = "createTechnicalPlan" ->
             [result |-> "ok", plans |-> With(P, InboxPath(f), op.out)]
        [] op.name = "markReviewed" ->
             IF Exists(P, InboxPath(f))
             THEN [result |-> "ok",
                   plans |-> With(Without(P, InboxPath(f)), ReviewedPath(f),
                                  reviewedContent(P[InboxPath(f)], FormatDate(DayOf(op.at))))]
             ELSE [result |-> "error", plans |-> P]
        [] op.name = "archivePlan" ->
             IF Exists(P, InboxPath(f))
             THEN [result |-> "ok",
                   plans |-> With(Without(P, InboxPath(f)), ArchivePath(f), P[InboxPath(f)])]
             ELSE IF Exists(P, ReviewedPath(f))
             THEN [result |-> "ok",
                   plans |-> With(Without(P, ReviewedPath(f)), ArchivePath(f), P[ReviewedPath(f)])]
             ELSE [result |-> "error", plans |-> P]
        [] OTHER -> [result |-> "ok", plans |-> P]

\* a call of initializeStructure has ended on a failed gateway call
InitializeFailed(p) ==
  IsInitialize(p) /\ \E k \in 1..Len(ops[p].log) : ~ops[p].log[k].ok

CallBound(op) ==
  LET listed == Cardinality(RequestedPlans(op)) IN
  CASE op.name = "markReviewed" -> 3
    [] op.name = "getPlanMetadata" -> 3
    [] op.name = "archivePlan" -> 6
    [] op.name = "listTechnicalPlans" -> Len(folders) + listed
    [] op.name = "archiveOldReviewed" ->
         1 + Cardinality(PlansIn(op.pre, 2)) + 6 * Cardinality(PlansIn(op.pre, 2))
    [] OTHER -> 0

\* a call that failed is not issued again as the next call
NoRetry(op) ==
  \A k \in 1..(Len(op.log) - 1) :
    ~op.log[k].ok => <<op.log[k + 1].call, op.log[k + 1].path>> # <<op.log[k].call, op.log[k].path>>

\* C31: every gateway call returning, every manager method ends, having
\* issued at most 3 gateway calls (markReviewed, getPlanMetadata), at most 6
\* (archivePlan), or a number bounded by the count of listed entries
\* (listTechnicalPlans, archiveOldReviewed), and never the failed call again.
C31_Terminates ==
  /\ [](\A p \in Procs : Len(ops[p].log) <= CallBound(ops[p]) /\ NoRetry(ops[p]))
  /\ \A p \in Procs : (ops[p].pc \notin {"idle", "done"}) ~> Done(p)

\* archivePlan has ended after six gateway calls, one of which failed
C31_Witness ==
  \E p \in Procs :
    /\ Done(p)
    /\ ops[p].name = "archivePlan" /\ Len(ops[p].log) = 6 /\ ops[p].fails = 1

\* C32: after movePlan(f, target) has returned true, f is in the target
\* folder with the content it had in the folder where the call found it,
\* also when that folder is the target; f is then in at least one folder.
C32_MoveKeepsPlan ==
  \A p \in Procs :
    Succeeded(p, "movePlan") =>
      LET op == ops[p]
          targetPath == PathOf(folders[op.target], op.filename)
      IN  /\ Exists(vault, targetPath)
          /\ vault[targetPath] = op.pre[op.sourcePath]
          /\ FoldersOf(vault, op.filename) # {}

\* the path is that of a file of Inbox
InInbox(q) == StartsWith(q, FolderInbox \o <<"/">>)

\* C33: archiveOldReviewed reads, writes and deletes no file of Inbox and
\* leaves every file of Inbox in place with its content; every file it has
\* put in Archive is the copy Reviewed held, whose review_date is older than
\* the cutoff, also when a file of that name is in Inbox as well.
C33_InboxUntouched ==
  \A p \in Procs :
    (ops[p].name = "archiveOldReviewed" /\ Done(p)) =>
      LET op == ops[p] IN
      /\ \A k \in 1..Len(op.log) : op.log[k].ok => ~InInbox(op.log[k].path)
      /\ \A q \in DOMAIN op.pre : InInbox(q) => Kept(op, q)
      /\ \A q \in DOMAIN vault :
           (StartsWith(q, FolderArchive \o <<"/">>) /\ (~Exists(op.pre, q) \/ op.pre[q] # vault[q])) =>
             LET r == ReviewedPath(LastSegment(q)) IN
             /\ Exists(op.pre, r)
             /\ vault[q] = op.pre[r]
             /\ isOld([path |-> r, hasMeta |-> TRUE,
                       metadata |-> parseFrontmatter(op.pre[r]).metadata],
                      cutoffDate(op.at, op.daysOld))

\* C34: when createTechnicalPlan has written Inbox/f and returned, and a
\* markReviewed(f) whose gateway calls interleave with that write has ended,
\* the content createTechnicalPlan wrote is in Inbox/f or, stamped with the
\* review date, in Reviewed/f.
C34_AcknowledgedPlanKept ==
  ( /\ Succeeded(1, "createTechnicalPlan")
    /\ ops[2].name = "markReviewed" /\ Done(2)
    /\ ops[2].filename = ops[1].filename ) =>
    LET f == ops[1].filename IN
    \/ Exists(vault, InboxPath(f)) /\ vault[InboxPath(f)] = ops[1].out
    \/ /\ Exists(vault, ReviewedPath(f))
       /\ vault[ReviewedPath(f)] = reviewedContent(ops[1].out, FormatDate(DayOf(ops[2].at)))

\* f is in Inbox and in no other folder
OnlyInInbox(v, f) == FoldersOf(v, f) = {1}

\* one markReviewed(f) and one archivePlan(f), the first of which was called
\* with f in Inbox only and no other plan f created since, have both ended
RaceEnded(f) ==
  /\ ops[1].name = "archivePlan" /\ Done(1) /\ ops[1].filename = f
  /\ ops[2].name = "markReviewed" /\ Done(2) /\ ops[2].filename = f
  /\ created = 1
  /\ OnlyInInbox(ops[1].pre, f) \/ OnlyInInbox(ops[2].pre, f)

\* the content f had in Inbox when the first of the two calls began
RacedContent(f) ==
  IF OnlyInInbox(ops[1].pre, f) THEN ops[1].pre[InboxPath(f)] ELSE ops[2].pre[InboxPath(f)]

\* C35: for a plan f in Inbox only, one markReviewed(f) and one
\* archivePlan(f) whose gateway calls interleave in any order, the gateway
\* failing only with not-found, end with f gone from Inbox and present in
\* Reviewed or in Archive, each copy holding the content of the plan, with
\* or without the review date.
C35_RaceKeepsPlan ==
  \A f \in {ops[1].filename} :
    RaceEnded(f) =>
      LET copies == {RacedContent(f), reviewedContent(RacedContent(f), FormatDate(DayOf(ops[2].at)))}
      IN  /\ ~Exists(vault, InboxPath(f))
          /\ Exists(vault, ReviewedPath(f)) \/ Exists(vault, ArchivePath(f))
          /\ Exists(vault, ReviewedPath(f)) => vault[ReviewedPath(f)] \in copies
          /\ Exists(vault, ArchivePath(f)) => vault[ArchivePath(f)] \in copies

\* both calls have read the Inbox copy and both have returned success, the
\* plan being in Archive with its review date
C35_Witness ==
  /\ RaceEnded(ops[1].filename)
  /\ Succeeded(1, "archivePlan") /\ Succeeded(2, "markReviewed")
  /\ OnlyInInbox(ops[1].pre, ops[1].filename) /\ OnlyInInbox(ops[2].pre, ops[1].filename)
  /\ ops[1].log[1].ok /\ ops[2].log[1].ok
  /\ vault[ArchivePath(ops[1].filename)] # RacedContent(ops[1].filename)

\* call p is initializeStructure and this step is one of its gateway calls
InitializeStep(p) ==
  /\ ops[p].name = "initializeStructure"
  /\ ops[p].pc \in {"ilist", "iput"}
  /\ ops'[p] # ops[p]

\* C36: a gateway call of initializeStructure, whatever createTechnicalPlan,
\* markReviewed or archivePlan are doing meanwhile, is listFiles or the write
\* of '<managed folder>/.gitkeep': it removes no path, and it leaves every
\* file but that placeholder as it is.
C36_InitializeWritesPlaceholders ==
  [][\A p \in Procs :
       InitializeStep(p) =>
         LET entry == ops'[p].log[Len(ops'[p].log)]
             written == IF entry.call = "createOrUpdateFile" /\ entry.ok THEN {entry.path} ELSE {}
         IN  /\ Len(ops'[p].log) = Len(ops[p].log) + 1
             /\ entry.call \in {"listFiles", "createOrUpdateFile"}
             /\ \A q \in written :
                  /\ \E d \in 1..Len(folders) : q = PathOf(folders[d], Placeholder)
                  /\ vault'[q] = PlaceholderContent
             /\ DOMAIN vault' = DOMAIN vault \cup written
             /\ \A q \in DOMAIN vault \ written : vault'[q] = vault[q]
             /\ Plans(vault') = Plans(vault)]_vars

\* initializeStructure has written the placeholder of Reviewed while an
\* archivePlan was awaiting its write and the vault held a plan
C36_Witness ==
  /\ ops[2].name = "initializeStructure" /\ Len(Writes(ops[2])) >= 1
  /\ Exists(vault, PathOf(FolderReviewed, Placeholder))
  /\ ops[1].name = "archivePlan" /\ ops[1].pc = "aput"
  /\ \E q \in DOMAIN vault : EndsWith(q, ExtMd)

\* call p is listTechnicalPlans or getPlanMetadata, in flight or ended
IsReader(p) == ops[p].name \in {"listTechnicalPlans", "getPlanMetadata"}

\* C37: listTechnicalPlans and getPlanMetadata issue getFile calls only,
\* and from their call to their end, reads failing or not, the vault has the
\* paths and contents it had when they were called.
C37_ReadersReadOnly ==
  \A p \in Procs :
    IsReader(p) =>
      /\ \A k \in 1..Len(ops[p].log) : ops[p].log[k].call = "getFile"
      /\ vault = ops[p].pre

\* a listing has ended in which the read of a plan failed, on a vault that
\* holds a note without metadata block
C37_Witness ==
  \E p \in Procs :
    /\ IsListing(p)
    /\ ops[p].fails = 1
    /\ \E i \in 1..Len(ops[p].plans) : ~ops[p].plans[i].hasMeta
    /\ \E q \in DOMAIN vault : EndsWith(q, ExtMd) /\ ~StartsWith(vault[q], DelimOpen)

\* archiveOldReviewed has ended on the error of one of its archivePlan calls
SweepFailed(p) ==
  ops[p].name = "archiveOldReviewed" /\ Done(p) /\ ops[p].result = "error"

\* the gateway calls of a call that name file f
CallsOn(op, f) == {k \in 1..Len(op.log) : LastSegment(op.log[k].path) = f}

\* the gateway calls archivePlan made for archiveOldReviewed, after the
\* listing, on the Reviewed copy of a plan or on its Archive path, that failed
ArchiveFailures(op) ==
  {k \in (Len(op.plans) + 2)..Len(op.log) : ~op.log[k].ok /\ ~InInbox(op.log[k].path)}

\* C38: archiveOldReviewed whose archivePlan fails on a plan ends there with
\* that error and no count: the listed plans after it have had no gateway
\* call but their read by the listing and are in Reviewed as they were, the
\* old plans listed before it are in Archive and gone from Reviewed, and the
\* last gateway call of the call is one on the plan that failed.
C38_SweepStopsAtFailure ==
  \A p \in Procs :
    /\ (ops[p].name = "archiveOldReviewed" /\ Done(p) /\ ArchiveFailures(ops[p]) # {}) =>
         SweepFailed(p)
    /\ SweepFailed(p) =>
      LET op == ops[p]
          failed == op.next - 1
          old(i) == isOld(op.plans[i], cutoffDate(op.at, op.daysOld))
      IN  /\ Thrown(op) = <<NotFoundError, "">>
          /\ failed \in 1..Len(op.plans) /\ old(failed)
          /\ LastSegment(op.log[Len(op.log)].path) = LastSegment(op.plans[failed].path)
          /\ \A i \in (failed + 1)..Len(op.plans) :
               /\ Kept(op, op.plans[i].path)
               /\ Cardinality(CallsOn(op, LastSegment(op.plans[i].path))) = 1
          /\ \A i \in 1..(failed - 1) :
               IF old(i) THEN Archived(op, op.plans[i].path) ELSE Kept(op, op.plans[i].path)

\* the call has failed on the second of three old plans: the first is
\* archived, the third is in Reviewed
C38_Witness ==
  \E p \in Procs :
    /\ SweepFailed(p)
    /\ ops[p].next = 3 /\ Len(ops[p].plans) = 3
    /\ Archived(ops[p], ops[p].plans[1].path)
    /\ isOld(ops[p].plans[3], cutoffDate(ops[p].at, ops[p].daysOld))
    /\ Kept(ops[p], ops[p].plans[3].path)

====
